---- MODULE Spec2Model ----
(***************************************************************************)
(* Dynatrace service topology exporter.                                    *)
(*                                                                         *)
(*   - the retry/backoff loop of the two gateways                          *)
(*       dynatrace_client.DynatraceClient._execute_with_retry      (bfs)   *)
(*       dynatrace_service_topology.DynatraceClient._execute_with_retry    *)
(*                                                                 (scan)  *)
(*   - the breadth-first traversal of topology_exporter.TopologyExporter   *)
(*     (run, _bfs_traverse, _build_edges), driven by the worker thread of  *)
(*     main.ExportWorker and cancelled from the interface thread.          *)
(*   - the full scan of dynatrace_service_topology (main,                  *)
(*     TopologyExtractor.run, write_csv): paginated fetch, edge            *)
(*     extraction from calls and called_by, single lookups of unknown      *)
(*     ids, and the sorted CSV rows.                                       *)
(*                                                                         *)
(* Service ids are positive integers; 0 is the empty id.  Backoff values   *)
(* are whole seconds.                                                      *)
(***************************************************************************)
EXTENDS Integers, Sequences, FiniteSets, TLC

VARIABLES
    \* ---- client configuration (ClientConfig / Config)
    gateway,          \* "bfs" (dynatrace_client) or "scan" (dynatrace_service_topology)
    max_retries,
    initial_backoff,
    max_backoff,
    batch_size,       \* ClientConfig.batch_size
    \* ---- one _execute_with_retry call
    gpc,              \* position in the call: idle, loop, http, sleep, returned, raised
    retries,
    backoff,
    gw_body,          \* entities of the decoded 200 body (ids, in response order)
    gw_error,         \* the DynatraceAPIError raised: [status, reason]
    http_log,         \* outcomes of the HTTP attempts of this call, in order
    sleeps,           \* durations of the backoff sleeps of this call, in order
    \* ---- backend
    graph,            \* the calls relation served by the backend: set of <<s, t>>
    stale,            \* ids the backend no longer knows (never returned)
    twice,            \* calls the backend lists twice in the caller's calls list
    \* ---- TopologyExporter
    root_ids,         \* argument of run()
    pc,               \* position of the worker thread
    visited,          \* _visited
    queue,            \* _queue: sequence of <<id, depth>>
    services,         \* _services: keys in insertion order (values: ServiceEntity(id))
    edges,            \* _edges
    cancelled,        \* _cancelled
    batch,            \* the batch being fetched: sequence of <<id, depth>>
    max_depth,
    result,           \* the ExportResult returned by run()
    \* ---- history of the run
    enq_log,          \* every <<id, depth>> appended to _queue, in order
    batches,          \* every batch fetch finished so far: [ids, outcome, body]
    \* ---- the gateway's HTTP session
    session,          \* "none" (not created), "open", "closed"
    \* ---- full scan (dynatrace_service_topology)
    spc,              \* position of main(): idle when no scan runs
    pages,            \* the backend's pages: sequence of sequences of entity ids
    next_page_key,    \* cursor of the next page to ask for (0: none)
    all_entities,     \* fetch_all_services: ids of the entities fetched so far
    id_to_name,       \* TopologyExtractor.id_to_name: function id -> name
    scan_edges,       \* TopologyExtractor.edges: set of 5-tuples
    unknown_ids,      \* TopologyExtractor.unknown_ids
    final_edges,      \* what extractor.run() returned
    cursors,          \* the backend's nextPageKey of each page (0: absent, -1: "")
    from_time,        \* Config.from_time (0: None, 1: given)
    to_time,          \* Config.to_time (0: None, 1: given)
    page_requests,    \* the params of every page request made, in order
    failing_ids,      \* the unknown ids whose lookup raised an API error
    \* ---- decoding of the entity records of one response
    ppc,              \* idle, start, parsed, extracted
    raw_entities,     \* the "entities" list of the response body
    decoded,          \* from_api_response of each record, in order (or ParseError)
    fetched_services, \* what fetch_services_by_ids returns for the response
    extracted,        \* what extract_relationships did with the response
    csv_rows,         \* the rows write_csv wrote, in order
    \* ---- the caller of run()
    emitted,          \* results emitted through ExportWorker.finished, in order
    run_no,           \* calls of run() made on the exporter so far
    prior,            \* what the previous call of run() on the exporter left
    lookup,           \* what a single-id lookup gave its caller
    snapshots,        \* the progress snapshots run() has passed to on_progress
    early_cancels     \* when ExportWorker.cancel was called before run() reset the exporter

gw_vars  == <<gpc, retries, backoff, gw_body, gw_error, http_log, sleeps>>
cfg_vars == <<gateway, max_retries, initial_backoff, max_backoff, batch_size>>
env_vars == <<graph, stale, twice, root_ids>>
bfs_vars == <<pc, visited, queue, services, edges, batch, max_depth, result,
              enq_log, batches>>
scan_vars == <<spc, pages, next_page_key, all_entities, id_to_name, scan_edges, unknown_ids,
               final_edges, csv_rows, cursors, from_time, to_time, page_requests,
               failing_ids>>
parse_vars == <<ppc, raw_entities, decoded, fetched_services, extracted>>
run_vars == <<emitted, run_no, prior, lookup, snapshots, early_cancels>>
vars     == <<gw_vars, cfg_vars, env_vars, bfs_vars, cancelled, session, scan_vars, parse_vars,
             run_vars>>

----------------------------------------------------------------------------
(* Program constants *)

\* TopologyExporter._batch_size
BatchSize == 50

\* ClientConfig defaults
DefaultMaxRetries == 5
DefaultInitialBackoff == 1
DefaultMaxBackoff == 60
\* ClientConfig.batch_size, and the range the settings form offers for it
DefaultBatchSize == 50
MinBatchSize == 10
MaxBatchSize == 100

----------------------------------------------------------------------------
(* Bounds of the explored inputs *)

\* max_retries is drawn from 0..MaxRetriesBound
MaxRetriesBound == 2
\* initial_backoff and max_backoff are drawn from 1..MaxBackoffBound
MaxBackoffBound == 3

----------------------------------------------------------------------------
(* Helpers *)

Min(a, b) == IF a <= b THEN a ELSE b
Max(a, b) == IF a >= b THEN a ELSE b

RECURSIVE Pow2(_)
Pow2(k) == IF k = 0 THEN 1 ELSE 2 * Pow2(k - 1)

NoError == [status |-> -1, reason |-> "none"]

----------------------------------------------------------------------------
(* HTTP attempts *)

\* What one session.get() can produce: a response with a status code, or an
\* exception of the requests library.
Statuses   == {200, 429, 500, 503, 400, 404}
Exceptions == {"SSLError", "ConnectionError", "Timeout", "RequestException"}
Outcomes   == {[exc |-> "none", status |-> s] : s \in Statuses}
              \cup {[exc |-> e, status |-> 0] : e \in Exceptions}

Response(s) == [exc |-> "none", status |-> s]
Raises(e)   == [exc |-> e, status |-> 0]

----------------------------------------------------------------------------
(* _execute_with_retry: what one attempt's outcome leads to *)

Return(r)          == [act |-> "return", retries |-> r, error |-> NoError]
Retry(r)           == [act |-> "retry",  retries |-> r, error |-> NoError]
Raise(r, st, why)  == [act |-> "raise",  retries |-> r,
                       error |-> [status |-> st, reason |-> why]]

\* Mutant: the limit is tested with >= (one attempt too few).
RetryOrRaiseOffByOne(r, m, st, why) ==
    IF r + 1 >= m THEN Raise(r + 1, st, why) ELSE Retry(r + 1)

\* retries += 1; if retries > max_retries: raise ...; else sleep and retry
RetryOrRaise(r, m, st, why) ==
    IF r + 1 > m THEN Raise(r + 1, st, why) ELSE Retry(r + 1)

\* Mutant: the server-error branch takes every status from 400 up, so a
\* client error is retried.
BfsAttemptRetryClientErrors(o, r, m) ==
    IF o.exc = "none" THEN
        IF o.status = 200 THEN Return(r)
        ELSE IF o.status = 429 THEN RetryOrRaise(r, m, 429, "rate limit")
        ELSE IF o.status >= 400 THEN RetryOrRaise(r, m, o.status, "server error")
        ELSE Raise(r, o.status, "client error")
    ELSE IF o.exc = "SSLError" THEN Raise(r, 0, "ssl")
    ELSE IF o.exc = "ConnectionError" THEN RetryOrRaise(r, m, 0, "connection")
    ELSE IF o.exc = "Timeout" THEN RetryOrRaise(r, m, 0, "timeout")
    ELSE Raise(r, 0, "request failed")

\* dynatrace_client.DynatraceClient._execute_with_retry, one pass of the
\* try block with retry counter r and limit m.
BfsAttempt(o, r, m) ==
    IF o.exc = "none" THEN
        IF o.status = 200 THEN Return(r)
        ELSE IF o.status = 429 THEN RetryOrRaise(r, m, 429, "rate limit")
        ELSE IF o.status >= 500 THEN RetryOrRaise(r, m, o.status, "server error")
        ELSE Raise(r, o.status, "client error")
    ELSE IF o.exc = "SSLError" THEN Raise(r, 0, "ssl")
    ELSE IF o.exc = "ConnectionError" THEN RetryOrRaise(r, m, 0, "connection")
    ELSE IF o.exc = "Timeout" THEN RetryOrRaise(r, m, 0, "timeout")
    ELSE Raise(r, 0, "request failed")

\* Mutant: a request exception is retried without being counted.
ScanAttemptExceptionsUncounted(o, r, m) ==
    IF o.exc = "none" THEN
        IF o.status = 200 THEN Return(r)
        ELSE IF o.status = 429 THEN RetryOrRaise(r, m, 429, "rate limit")
        ELSE IF o.status >= 500 THEN RetryOrRaise(r, m, o.status, "server error")
        ELSE Raise(r, o.status, "client error")
    ELSE Retry(r)

\* dynatrace_service_topology.DynatraceClient._execute_with_retry: every
\* requests exception (SSLError included) is caught by the one
\* RequestException clause and retried.
ScanAttempt(o, r, m) ==
    IF o.exc = "none" THEN
        IF o.status = 200 THEN Return(r)
        ELSE IF o.status = 429 THEN RetryOrRaise(r, m, 429, "rate limit")
        ELSE IF o.status >= 500 THEN RetryOrRaise(r, m, o.status, "server error")
        ELSE Raise(r, o.status, "client error")
    ELSE RetryOrRaise(r, m, 0, "request failed")

Attempt(gw, o, r, m) ==
    IF gw = "bfs" THEN BfsAttempt(o, r, m) ELSE ScanAttempt(o, r, m)

\* backoff = min(backoff * 2, max_backoff)
NextBackoff(b, maxb) == Min(b * 2, maxb)

----------------------------------------------------------------------------
(* Backend: the service graph and what it answers to a batch request *)

\* The calls relationships a backend may hold: every graph is a subset.
\* It holds a cycle (1 2 3), a diamond (1 -> 2 -> 4, 1 -> 3 -> 4) and two
\* paths of different lengths to one node (1 -> 3 and 1 -> 2 -> 3).
CandEdges == {<<1, 2>>, <<2, 3>>, <<3, 1>>, <<1, 3>>, <<2, 4>>, <<3, 4>>}

CoreIds   == {e[1] : e \in CandEdges} \cup {e[2] : e \in CandEdges}
MaxCoreId == CHOOSE m \in CoreIds : \A n \in CoreIds : n <= m

\* Further services known to the backend, none of which calls anything.
\* NumFill of them, given as roots, nearly fill the first batch.
NumFill == 49
FillIds == [i \in 1..NumFill |-> MaxCoreId + i]

\* Batches of at most MaxPermLen entities come back in any order, longer
\* ones in request order or reversed.
MaxPermLen == 3

RECURSIVE SortedSeq(_)
SortedSeq(S) ==
    IF S = {} THEN <<>>
    ELSE LET m == CHOOSE x \in S : \A y \in S : x <= y
         IN  <<m>> \o SortedSeq(S \ {m})

Range(s) == {s[i] : i \in DOMAIN s}

RECURSIVE Concat(_)
Concat(ss) == IF ss = <<>> THEN <<>> ELSE Head(ss) \o Concat(Tail(ss))

Reverse(s) == [i \in 1..Len(s) |-> s[Len(s) + 1 - i]]

Orders(s) ==
    IF Len(s) <= MaxPermLen
    THEN {[i \in 1..Len(s) |-> s[f[i]]] :
            f \in {g \in [1..Len(s) -> 1..Len(s)] : Range(g) = 1..Len(s)}}
    ELSE {s, Reverse(s)}

\* The targets ts of id as the backend lists them: a call of `twice` is
\* listed two times.
RECURSIVE Listed(_, _)
Listed(id, ts) ==
    IF ts = <<>> THEN <<>>
    ELSE (IF <<id, Head(ts)>> \in twice THEN <<Head(ts), Head(ts)>> ELSE <<Head(ts)>>)
         \o Listed(id, Tail(ts))

\* fromRelationships.calls of a service, as the backend lists it, read by
\* from_api_response: every entry of type SERVICE is appended to calls.  A
\* backend that lists no call twice lists the targets once each.
CallsOf(g, id) ==
    LET ts == SortedSeq({e[2] : e \in {x \in g : x[1] = id}})
    IN  IF twice = {} THEN ts ELSE Listed(id, ts)

\* The entities a 200 answer to a request for ids can carry: the requested
\* ids the backend still knows, in some order.
BackendResponses(ids, gone) ==
    Orders(SelectSeq(ids, LAMBDA i : i \notin gone))

\* ServiceEntity.from_api_response of the backend's record of id
ServiceEntity(g, id) ==
    [entity_id          |-> id,
     display_name       |-> "svc-" \o ToString(id),
     process_group      |-> "pg-" \o ToString(id),
     web_application_id |-> "",
     web_server_name    |-> "",
     remote_endpoint    |-> "",
     service_type       |-> "WEB_SERVICE",
     calls              |-> CallsOf(g, id)]

----------------------------------------------------------------------------
(* TopologyExporter: pure parts of run, _bfs_traverse and _build_edges *)

\* A caller-supplied root id: text is the id it names (0: none), pad tells
\* whether whitespace surrounds it.
Plain(id)  == [text |-> id, pad |-> FALSE]
Padded(id) == [text |-> id, pad |-> TRUE]

\* `rid` is a non-empty string
Truthy(r) == r.text # 0 \/ r.pad
\* rid.strip()
Strip(r) == r.text

\* Mutant: the filter tests rid only, not rid.strip(), so that an id of
\* blanks is kept (as the empty string).
RECURSIVE FilterRootsKeepsBlank(_)
FilterRootsKeepsBlank(rs) ==
    IF rs = <<>> THEN <<>>
    ELSE LET r == Head(rs)
         IN  (IF Truthy(r) THEN <<Strip(r)>> ELSE <<>>)
             \o FilterRootsKeepsBlank(Tail(rs))

\* [rid.strip() for rid in root_ids if rid and rid.strip()]
RECURSIVE FilterRoots(_)
FilterRoots(rs) ==
    IF rs = <<>> THEN <<>>
    ELSE LET r == Head(rs)
         IN  (IF Truthy(r) /\ Strip(r) # 0 THEN <<Strip(r)>> ELSE <<>>)
             \o FilterRoots(Tail(rs))

\* The traversal state one loop body reads and writes.
TState(v, q, s, l) == [visited |-> v, queue |-> q, services |-> s, enq_log |-> l]

\* Mutant: an id is marked visited when it is fetched, not when it is
\* enqueued, so the test does not see what the same walk has enqueued.
IsNewMarkedOnFetch(v, items, i) == items[i][1] \notin v

\* Mutant: there is no visited set; only repetitions within one walk are
\* skipped.
IsNewWithoutVisited(v, items, i) ==
    \A j \in 1..(i - 1) : items[j][1] # items[i][1]

\* `if id not in self._visited`, asked of the i-th of the entries the loop
\* walks through: its id is not in visited when the loop starts (v) and no
\* earlier entry of the walk has added it.
IsNew(v, items, i) ==
    /\ items[i][1] \notin v
    /\ \A j \in 1..(i - 1) : items[j][1] # items[i][1]

\* The entries, in order, that pass the test
NewItems(v, items) ==
    LET kept == {i \in 1..Len(items) : IsNew(v, items, i)}
    IN  SelectSeq([i \in 1..Len(items) |-> IF i \in kept THEN items[i] ELSE <<>>],
                  LAMBDA x : x # <<>>)

\* for each <<id, depth>> of items, in order:
\*     if id not in self._visited:
\*         self._visited.add(id); self._queue.append((id, depth))
EnqueueAll(st, items) ==
    CHOOSE r \in {[st EXCEPT !.visited = @ \cup {x[1] : x \in Range(new)},
                             !.queue   = @ \o new,
                             !.enq_log = @ \o new] :
                  new \in {NewItems(st.visited, items)}} : TRUE

\* for rid in root_ids: if rid and rid not in self._visited: enqueue (rid, 0)
SeedRoots(ids, st) ==
    LET given == SelectSeq(ids, LAMBDA id : id # 0)
    IN  EnqueueAll(st, [i \in 1..Len(given) |-> <<given[i], 0>>])

\* for bid, bdepth in batch: if bid == service.entity_id: take bdepth (else 0)
RECURSIVE DepthInBatch(_, _)
DepthInBatch(b, id) ==
    IF b = <<>> THEN 0
    ELSE IF Head(b)[1] = id THEN Head(b)[2]
    ELSE DepthInBatch(Tail(b), id)

\* Mutant: only the first entry of a calls list is followed.
TargetsOfFirstOnly(calls, depth) ==
    IF calls = <<>> THEN <<>> ELSE <<<<calls[1], depth + 1>>>>

\* The <<target_id, service_depth + 1>> of one service's calls list
TargetsOf(calls, depth) == [i \in 1..Len(calls) |-> <<calls[i], depth + 1>>]

\* ... of every service of the response, in the order the two nested loops
\* reach them
RECURSIVE Targets(_, _, _)
Targets(body, b, g) ==
    IF body = <<>> THEN <<>>
    ELSE TargetsOf(ServiceEntity(g, Head(body)).calls, DepthInBatch(b, Head(body)))
         \o Targets(Tail(body), b, g)

\* self._services[service.entity_id] = service, for every service of the
\* response (a dict keeps the position of a key it already holds)
RecordAll(s, body) ==
    LET kept == {i \in 1..Len(body) : /\ body[i] \notin Range(s)
                                      /\ \A j \in 1..(i - 1) : body[j] # body[i]}
    IN  s \o SelectSeq([i \in 1..Len(body) |-> IF i \in kept THEN body[i] ELSE 0],
                       LAMBDA x : x # 0)

\* for service in services: record it and enqueue its unvisited targets
ProcessServices(body, b, g, st) ==
    EnqueueAll([st EXCEPT !.services = RecordAll(@, body)], Targets(body, b, g))

RECURSIVE MaxOf(_)
MaxOf(s) == IF s = <<>> THEN 0 ELSE Max(Head(s), MaxOf(Tail(s)))

Ids(b)    == [i \in 1..Len(b) |-> b[i][1]]
Depths(b) == [i \in 1..Len(b) |-> b[i][2]]

\* EdgeRecord for the call source -> target_id, target looked up in discovered
EdgeRecord(g, discovered, source, target_id) ==
    LET found == target_id \in Range(discovered)
        target == ServiceEntity(g, target_id)
    IN  [source_id          |-> source.entity_id,
         source_name        |-> source.display_name,
         source_pg          |-> source.process_group,
         source_web_app_id  |-> source.web_application_id,
         source_remote_name |-> source.remote_endpoint,
         source_web_server  |-> source.web_server_name,
         relation           |-> "CALLS",
         target_id          |-> target_id,
         target_name        |-> IF found THEN target.display_name ELSE "UNKNOWN",
         target_pg          |-> IF found THEN target.process_group ELSE "",
         target_web_app_id  |-> IF found THEN target.web_application_id ELSE "",
         target_remote_name |-> IF found THEN target.remote_endpoint ELSE "",
         target_web_server  |-> IF found THEN target.web_server_name ELSE ""]

\* Mutant: a record is made only when the target was discovered too.
EdgesOfDiscoveredOnly(g, discovered, source) ==
    LET known == SelectSeq(source.calls, LAMBDA t : t \in Range(discovered))
    IN  [i \in 1..Len(known) |-> EdgeRecord(g, discovered, source, known[i])]

\* for target_id in service.calls: one EdgeRecord each
EdgesOf(g, discovered, source) ==
    [i \in 1..Len(source.calls) |-> EdgeRecord(g, discovered, source, source.calls[i])]

\* _build_edges: for every discovered service, in insertion order, one
\* record per entry of its calls list, appended to _edges
RECURSIVE BuildEdges(_, _, _)
BuildEdges(g, discovered, todo) ==
    IF todo = <<>> THEN <<>>
    ELSE LET built == {EdgesOf(g, discovered, source) :
                         source \in {ServiceEntity(g, Head(todo))}}
         IN  (CHOOSE es \in built : TRUE) \o BuildEdges(g, discovered, Tail(todo))

\* EdgeRecord.to_dict
ToDict(e) ==
    [Source_ID         |-> e.source_id,
     Source_Name       |-> e.source_name,
     Source_PG         |-> e.source_pg,
     Source_WebAppID   |-> e.source_web_app_id,
     Source_RemoteName |-> e.source_remote_name,
     Source_WebServer  |-> e.source_web_server,
     RELATION          |-> e.relation,
     Target_ID         |-> e.target_id,
     Target_Name       |-> e.target_name,
     Target_PG         |-> e.target_pg,
     Target_WebAppID   |-> e.target_web_app_id,
     Target_RemoteName |-> e.target_remote_name,
     Target_WebServer  |-> e.target_web_server]

\* _create_dataframe: one row per edge record, in the order of _edges
CreateDataframe(es) == [i \in 1..Len(es) |-> ToDict(es[i])]

\* ExportResult
ExportResult(ok, msg, ns, ne, depth) ==
    [success |-> ok, message |-> msg, total_services |-> ns,
     total_edges |-> ne, traversal_depth |-> depth]

NoResult == ExportResult(FALSE, "none", 0, 0, 0)

\* DynatraceClient._get_session: the session is created when there is none
GetSession(sess) == IF sess = "open" THEN sess ELSE "open"

\* DynatraceClient.close: an open session is closed
CloseSession(sess) == IF sess = "open" THEN "closed" ELSE sess

----------------------------------------------------------------------------
(* Full scan: pure parts of TopologyExtractor and write_csv *)

\* toRelationships.called_by of a service, as the backend lists it
CalledByOf(g, id) == SortedSeq({e[1] : e \in {x \in g : x[2] = id}})

\* A dict with no key
EmptyMap == [x \in {} |-> ""]

\* m[k] = v
MapPut(m, k, v) == [x \in DOMAIN m \cup {k} |-> IF x = k THEN v ELSE m[x]]

\* self.id_to_name.get(id, "UNKNOWN")
NameGet(m, id) == IF id \in DOMAIN m THEN m[id] ELSE "UNKNOWN"

\* build_id_to_name_map: every entity with a non-empty entityId is mapped to
\* its displayName
RECURSIVE BuildIdToNameMap(_, _, _)
BuildIdToNameMap(g, m, entities) ==
    IF entities = <<>> THEN m
    ELSE LET id == Head(entities)
         IN  BuildIdToNameMap(g,
                 IF id # 0 THEN MapPut(m, id, ServiceEntity(g, id).display_name) ELSE m,
                 Tail(entities))

\* The extractor's edge set and unknown-id set
XState(es, unk) == [edges |-> es, unknown |-> unk]

\* _add_edge
AddEdge(m, st, source_id, target_id, relationship) ==
    XState(st.edges \cup {<<source_id, NameGet(m, source_id),
                            target_id, NameGet(m, target_id), relationship>>},
           st.unknown \cup ({source_id, target_id} \ DOMAIN m))

\* for target in calls: self._add_edge(entity_id, target_id, "CALLS")
RECURSIVE AddCalls(_, _, _, _)
AddCalls(m, st, entity_id, calls) ==
    IF calls = <<>> THEN st
    ELSE AddCalls(m, AddEdge(m, st, entity_id, Head(calls), "CALLS"),
                  entity_id, Tail(calls))

\* for source in called_by: self._add_edge(source_id, entity_id, "CALLED_BY")
RECURSIVE AddCalledBy(_, _, _, _)
AddCalledBy(m, st, entity_id, called_by) ==
    IF called_by = <<>> THEN st
    ELSE AddCalledBy(m, AddEdge(m, st, Head(called_by), entity_id, "CALLED_BY"),
                     entity_id, Tail(called_by))

\* extract_relationships
RECURSIVE ExtractRelationships(_, _, _, _)
ExtractRelationships(g, m, st, entities) ==
    IF entities = <<>> THEN st
    ELSE LET id == Head(entities)
             withCalls == AddCalls(m, st, id, CallsOf(g, id))
             withBoth == AddCalledBy(m, withCalls, id, CalledByOf(g, id))
         IN  ExtractRelationships(g, m, IF id = 0 THEN st ELSE withBoth,
                                  Tail(entities))

\* Mutant: the first lookup that raises ends the loop.
RECURSIVE ResolveUnknownIdsStopsAtFailure(_, _, _, _, _)
ResolveUnknownIdsStopsAtFailure(g, st, todo, gone, failing) ==
    IF todo = <<>> THEN st
    ELSE LET id == Head(todo)
             next ==
                 IF id \in DOMAIN st.names
                 THEN [st EXCEPT !.unknown = @ \ {id}]
                 ELSE IF id \in gone THEN st
                 ELSE [names   |-> MapPut(st.names, id, ServiceEntity(g, id).display_name),
                       unknown |-> st.unknown \ {id}]
         IN  IF id \in failing /\ id \notin DOMAIN st.names THEN st
             ELSE ResolveUnknownIdsStopsAtFailure(g, next, Tail(todo), gone, failing)

\* resolve_unknown_ids, when the lookups of the ids of `gone` return None
\* (404) and those of `failing` raise: the other unknown ids get their name
RECURSIVE ResolveUnknownIds(_, _, _, _, _)
ResolveUnknownIds(g, st, todo, gone, failing) ==
    IF todo = <<>> THEN st
    ELSE LET id == Head(todo)
             next ==
                 IF id \in DOMAIN st.names
                 THEN [st EXCEPT !.unknown = @ \ {id}]
                 ELSE IF id \in gone \cup failing THEN st
                 ELSE [names   |-> MapPut(st.names, id, ServiceEntity(g, id).display_name),
                       unknown |-> st.unknown \ {id}]
         IN  ResolveUnknownIds(g, next, Tail(todo), gone, failing)

\* Some sequence of the elements of a set (list(self.unknown_ids): the
\* outcome of resolve_unknown_ids does not depend on the order)
RECURSIVE SeqOf(_)
SeqOf(S) ==
    IF S = {} THEN <<>>
    ELSE LET x == CHOOSE y \in S : TRUE IN <<x>> \o SeqOf(S \ {x})

\* The orders in which a set can be iterated: every sequence that holds each
\* of its elements once
RECURSIVE IterationOrders(_)
IterationOrders(S) ==
    IF S = {} THEN {<<>>}
    ELSE UNION {{<<x>> \o rest : rest \in IterationOrders(S \ {x})} : x \in S}

\* finalize_edges, for one of the orders in which the set is iterated
FinalizeEdges(m, es) ==
    [i \in 1..Len(es) |->
        <<es[i][1], NameGet(m, es[i][1]), es[i][3], NameGet(m, es[i][3]), es[i][5]>>]

\* Python's order of the strings met in the rows, ascending
StringsAscending ==
    <<"", "CALLED_BY", "CALLS", "UNKNOWN", "svc-1", "svc-2", "svc-3", "svc-4">>

StrRank(x) == CHOOSE i \in DOMAIN StringsAscending : StringsAscending[i] = x

\* a < b for tuples of integers, as Python compares tuples
RECURSIVE TupleLess(_, _)
TupleLess(a, b) ==
    IF a = <<>> THEN b # <<>>
    ELSE IF b = <<>> THEN FALSE
    ELSE IF Head(a) # Head(b) THEN Head(a) < Head(b)
    ELSE TupleLess(Tail(a), Tail(b))

\* An edge tuple with its strings replaced by their ranks
EdgeKey(e) == <<e[1], StrRank(e[2]), e[3], StrRank(e[4]), StrRank(e[5])>>

\* e put into the ascending sequence rows, after the elements not greater
RECURSIVE Insert(_, _)
Insert(e, rows) ==
    IF rows = <<>> THEN <<e>>
    ELSE IF TupleLess(EdgeKey(e), EdgeKey(Head(rows))) THEN <<e>> \o rows
    ELSE <<Head(rows)>> \o Insert(e, Tail(rows))

\* Mutant: the rows are written in the order given.
SortedAsGiven(es) == es

\* sorted(edges)
RECURSIVE Sorted(_)
Sorted(es) ==
    IF es = <<>> THEN <<>>
    ELSE LET put == {Insert(es[Len(es)], rows) :
                       rows \in {Sorted(SubSeq(es, 1, Len(es) - 1))}}
         IN  CHOOSE out \in put : TRUE

----------------------------------------------------------------------------
(* Actions of one _execute_with_retry call *)

\* Mutant: the cancellation check is made before a retry only, not before
\* the first attempt.
GwLoopChecksRetriesOnly ==
    /\ gpc = "loop"
    /\ IF retries > max_retries
       THEN /\ gpc' = "raised"
            /\ gw_error' = [status |-> 0, reason |-> "loop exit"]
       ELSE IF gateway = "bfs" /\ cancelled /\ retries > 0
       THEN /\ gpc' = "raised"
            /\ gw_error' = [status |-> 0, reason |-> "cancelled"]
       ELSE /\ gpc' = "http"
            /\ gw_error' = gw_error
    /\ UNCHANGED <<retries, backoff, gw_body, http_log, sleeps>>
    /\ UNCHANGED <<session, scan_vars, parse_vars, run_vars, cfg_vars, env_vars, bfs_vars, cancelled>>

\* `while retries <= max_retries:` and, in the bfs gateway, the
\* cancellation check that opens the loop body.
GwLoop ==
    /\ gpc = "loop"
    /\ IF retries > max_retries
       THEN /\ gpc' = "raised"
            /\ gw_error' = [status |-> 0, reason |-> "loop exit"]
       ELSE IF gateway = "bfs" /\ cancelled
       THEN /\ gpc' = "raised"
            /\ gw_error' = [status |-> 0, reason |-> "cancelled"]
       ELSE /\ gpc' = "http"
            /\ gw_error' = gw_error
    /\ UNCHANGED <<retries, backoff, gw_body, http_log, sleeps>>
    /\ UNCHANGED <<session, scan_vars, parse_vars, run_vars, cfg_vars, env_vars, bfs_vars, cancelled>>

\* The outcomes the backend produces: any of them for a call made on its
\* own, 200, 429 and 404 for the batch requests of a traversal.
PossibleOutcomes ==
    IF pc = "call" THEN Outcomes
    ELSE {Response(200), Response(429), Response(404)}

\* session.get(...) and the branch its outcome selects
GwHttp ==
    /\ gpc = "http"
    /\ \E o \in PossibleOutcomes :
         LET a == Attempt(gateway, o, retries, max_retries) IN
         /\ http_log' = Append(http_log, o)
         /\ retries' = a.retries
         /\ gw_error' = a.error
         /\ \/ /\ a.act = "return"
               /\ gpc' = "returned"
               /\ gw_body' \in BackendResponses(Ids(batch), stale)
            \/ /\ a.act = "retry"
               /\ gpc' = "sleep"
               /\ gw_body' = gw_body
            \/ /\ a.act = "raise"
               /\ gpc' = "raised"
               /\ gw_body' = gw_body
    /\ UNCHANGED <<backoff, sleeps>>
    /\ UNCHANGED <<session, scan_vars, parse_vars, run_vars, cfg_vars, env_vars, bfs_vars, cancelled>>

\* time.sleep(backoff); backoff = min(backoff * 2, max_backoff)
GwSleep ==
    /\ gpc = "sleep"
    /\ sleeps' = Append(sleeps, backoff)
    /\ backoff' = NextBackoff(backoff, max_backoff)
    /\ gpc' = "loop"
    /\ UNCHANGED <<retries, gw_body, gw_error, http_log>>
    /\ UNCHANGED <<session, scan_vars, parse_vars, run_vars, cfg_vars, env_vars, bfs_vars, cancelled>>

----------------------------------------------------------------------------
(* Single-id lookups *)

\* What a lookup gives: the value found, None, or the error it raises
Found(body)   == [kind |-> "value", value |-> body, error |-> NoError]
None          == [kind |-> "none", value |-> <<>>, error |-> NoError]
Raised(error) == [kind |-> "raised", value |-> <<>>, error |-> error]
NoLookup      == [kind |-> "pending", value |-> <<>>, error |-> NoError]

\* The status of "not found"
NotFound == 404

\* Mutant: the 404 is raised like every other error.
FetchEntityByIdRaisesAll(ended, body, error) ==
    IF ended = "returned" THEN Found(body) ELSE Raised(error)

\* dynatrace_service_topology fetch_entity_by_id, once _execute_with_retry
\* has returned the body or raised the error
FetchEntityById(ended, body, error) ==
    IF ended = "returned" THEN Found(body)
    ELSE IF error.status = NotFound THEN None
    ELSE Raised(error)

\* dynatrace_client fetch_single_service, once the request of
\* fetch_services_by_ids has returned the body or raised the error
FetchSingleService(ended, body, error) ==
    IF ended = "returned"
    THEN IF body # <<>> THEN Found(<<body[1]>>) ELSE None
    ELSE IF error.status = NotFound THEN None
    ELSE Raised(error)

----------------------------------------------------------------------------
(* Actions of the worker thread and of the interface thread *)

\* ExportWorker.run up to the construction of the exporter
CreateExporter ==
    /\ pc = "start"
    /\ pc' = "created"
    /\ visited' = {}
    /\ queue' = <<>>
    /\ services' = <<>>
    /\ edges' = <<>>
    /\ cancelled' = FALSE
    /\ UNCHANGED <<batch, max_depth, result, enq_log, batches>>
    /\ UNCHANGED <<session, scan_vars, parse_vars, run_vars, gw_vars, cfg_vars, env_vars>>

\* TopologyExporter.cancel, reached through ExportWorker.cancel once the
\* exporter exists: the call sets the flag whenever it is made, after run()
\* and after the worker thread have ended too
Cancel ==
    /\ pc # "start"
    /\ cancelled' = TRUE
    /\ UNCHANGED <<session, scan_vars, parse_vars, run_vars, gw_vars, cfg_vars, env_vars, bfs_vars>>

\* ExportProgress as on_progress receives it (the status text left out)
ExportProgress(depth, ns, ne, qs) ==
    [current_depth |-> depth, services_discovered |-> ns, edges_found |-> ne,
     queue_size |-> qs]

\* What a call of run() leaves on the exporter, and what no call leaves
Left == [edges |-> edges, result |-> result, batches |-> batches]
NoPrior == [edges |-> <<>>, result |-> NoResult, batches |-> <<>>]

\* Mutant: _reset leaves _visited as it is.
RunCallKeepsVisited ==
    /\ cancelled' = FALSE
    /\ edges' = <<>>
    /\ batches' = <<>>
    /\ \E ids \in {FilterRoots(root_ids)} :
       \E st \in {SeedRoots(ids, TState(visited, <<>>, <<>>, <<>>))} :
           IF root_ids = <<>>
           THEN /\ result' = ExportResult(FALSE, "No root service IDs provided", 0, 0, 0)
                /\ pc' = "done"
                /\ visited' = {} /\ queue' = <<>> /\ services' = <<>> /\ enq_log' = <<>>
                /\ snapshots' = <<>>
           ELSE IF ids = <<>>
           THEN /\ result' = ExportResult(FALSE, "No valid root service IDs provided", 0, 0, 0)
                /\ pc' = "done"
                /\ visited' = {} /\ queue' = <<>> /\ services' = <<>> /\ enq_log' = <<>>
                /\ snapshots' = <<>>
           ELSE /\ result' = result
                /\ pc' = "loop"
                /\ snapshots' = <<ExportProgress(0, 0, 0, 0)>>
                /\ visited' = st.visited
                /\ queue' = st.queue
                /\ services' = st.services
                /\ enq_log' = st.enq_log
    /\ max_depth' = 0
    /\ UNCHANGED batch
    /\ UNCHANGED <<session, scan_vars, parse_vars, gw_vars, cfg_vars, env_vars>>

\* Mutant: _reset leaves _cancelled as it is.
RunCallKeepsCancelled ==
    /\ cancelled' = cancelled
    /\ edges' = <<>>
    /\ batches' = <<>>
    /\ \E ids \in {FilterRoots(root_ids)} :
       \E st \in {SeedRoots(ids, TState({}, <<>>, <<>>, <<>>))} :
           IF root_ids = <<>>
           THEN /\ result' = ExportResult(FALSE, "No root service IDs provided", 0, 0, 0)
                /\ pc' = "done"
                /\ visited' = {} /\ queue' = <<>> /\ services' = <<>> /\ enq_log' = <<>>
                /\ snapshots' = <<>>
           ELSE IF ids = <<>>
           THEN /\ result' = ExportResult(FALSE, "No valid root service IDs provided", 0, 0, 0)
                /\ pc' = "done"
                /\ visited' = {} /\ queue' = <<>> /\ services' = <<>> /\ enq_log' = <<>>
                /\ snapshots' = <<>>
           ELSE /\ result' = result
                /\ pc' = "loop"
                /\ snapshots' = <<ExportProgress(0, 0, 0, 0)>>
                /\ visited' = st.visited
                /\ queue' = st.queue
                /\ services' = st.services
                /\ enq_log' = st.enq_log
    /\ max_depth' = 0
    /\ UNCHANGED batch
    /\ UNCHANGED <<session, scan_vars, parse_vars, gw_vars, cfg_vars, env_vars>>

\* run(): _reset, the validation of root_ids, and the seeding of the queue
\* that opens _bfs_traverse
RunCall ==
    /\ cancelled' = FALSE
    /\ edges' = <<>>
    /\ batches' = <<>>
    /\ \E ids \in {FilterRoots(root_ids)} :
       \E st \in {SeedRoots(ids, TState({}, <<>>, <<>>, <<>>))} :
           IF root_ids = <<>>
           THEN /\ result' = ExportResult(FALSE, "No root service IDs provided", 0, 0, 0)
                /\ pc' = "done"
                /\ visited' = {} /\ queue' = <<>> /\ services' = <<>> /\ enq_log' = <<>>
                /\ snapshots' = <<>>
           ELSE IF ids = <<>>
           THEN /\ result' = ExportResult(FALSE, "No valid root service IDs provided", 0, 0, 0)
                /\ pc' = "done"
                /\ visited' = {} /\ queue' = <<>> /\ services' = <<>> /\ enq_log' = <<>>
                /\ snapshots' = <<>>
           ELSE /\ result' = result
                /\ pc' = "loop"
                /\ snapshots' = <<ExportProgress(0, 0, 0, 0)>>
                /\ visited' = st.visited
                /\ queue' = st.queue
                /\ services' = st.services
                /\ enq_log' = st.enq_log
    /\ max_depth' = 0
    /\ UNCHANGED batch
    /\ UNCHANGED <<session, scan_vars, parse_vars, gw_vars, cfg_vars, env_vars>>

\* ExportWorker.run calls run() on the exporter it has made
Run ==
    /\ pc = "created"
    /\ RunCall
    /\ run_no' = 1
    /\ UNCHANGED <<emitted, prior, lookup, early_cancels>>

\* ExportWorker.cancel: `if self._exporter:` is false until the worker thread
\* has made the exporter, and then the call sets nothing; once it is made
\* the call is TopologyExporter.cancel, whenever it is made.  early_cancels
\* records the calls made before run() has reset the exporter.
WorkerCancel ==
    /\ cancelled' = IF pc = "start" THEN cancelled ELSE TRUE
    /\ early_cancels' = IF pc \in {"start", "created"}
                        THEN early_cancels \cup {pc}
                        ELSE early_cancels
    /\ UNCHANGED <<emitted, run_no, prior, lookup, snapshots>>
    /\ UNCHANGED <<session, scan_vars, parse_vars, gw_vars, cfg_vars, env_vars, bfs_vars>>

\* run() is called once more on the same exporter, with the same roots
RunAgain ==
    /\ pc = "done"
    /\ run_no = 1
    /\ RunCall
    /\ run_no' = 2
    /\ prior' = Left
    /\ UNCHANGED <<emitted, lookup, early_cancels>>

\* `while self._queue:` is false: _bfs_traverse returns max_depth
LoopExit ==
    /\ pc = "loop"
    /\ queue = <<>>
    /\ pc' = "post"
    /\ UNCHANGED <<visited, queue, services, edges, batch, max_depth, result,
                   enq_log, batches>>
    /\ UNCHANGED <<session, scan_vars, parse_vars, run_vars, gw_vars, cfg_vars, env_vars, cancelled>>

\* `if self._is_cancelled(): raise ...`, caught by run()'s first handler
LoopCancelled ==
    /\ pc = "loop"
    /\ queue # <<>>
    /\ cancelled
    /\ result' = ExportResult(FALSE, "HTTP 0: Export cancelled by user",
                              Len(services), Len(edges), 0)
    /\ pc' = "done"
    /\ UNCHANGED <<visited, queue, services, edges, batch, max_depth,
                   enq_log, batches>>
    /\ UNCHANGED <<session, scan_vars, parse_vars, run_vars, gw_vars, cfg_vars, env_vars, cancelled>>

\* Mutant: the batch is dequeued without looking at the flag.
LoopDequeueUnchecked ==
    /\ pc = "loop"
    /\ queue # <<>>
    /\ LET n == Min(Len(queue), BatchSize) IN
         /\ batch' = SubSeq(queue, 1, n)
         /\ queue' = SubSeq(queue, n + 1, Len(queue))
         /\ max_depth' = Max(max_depth, MaxOf(Depths(SubSeq(queue, 1, n))))
    /\ pc' = "fetch"
    /\ gpc' = "loop"
    /\ retries' = 0
    /\ backoff' = initial_backoff
    /\ gw_body' = <<>>
    /\ gw_error' = NoError
    /\ http_log' = <<>>
    /\ sleeps' = <<>>
    /\ session' = GetSession(session)
    /\ snapshots' = Append(snapshots,
                           ExportProgress(MaxOf(Depths(batch')), Len(services), Len(edges),
                                          Len(queue')))
    /\ UNCHANGED <<visited, services, edges, result, enq_log, batches>>
    /\ UNCHANGED <<emitted, run_no, prior, lookup, early_cancels>>
    /\ UNCHANGED <<scan_vars, parse_vars, cfg_vars, env_vars, cancelled>>

\* The batch is taken off the queue and fetch_services_by_ids is entered:
\* _execute_with_retry starts with retries = 0, backoff = initial_backoff.
LoopDequeue ==
    /\ pc = "loop"
    /\ queue # <<>>
    /\ ~cancelled
    /\ LET n == Min(Len(queue), BatchSize) IN
         /\ batch' = SubSeq(queue, 1, n)
         /\ queue' = SubSeq(queue, n + 1, Len(queue))
         /\ max_depth' = Max(max_depth, MaxOf(Depths(SubSeq(queue, 1, n))))
    /\ pc' = "fetch"
    /\ gpc' = "loop"
    /\ retries' = 0
    /\ backoff' = initial_backoff
    /\ gw_body' = <<>>
    /\ gw_error' = NoError
    /\ http_log' = <<>>
    /\ sleeps' = <<>>
    /\ session' = GetSession(session)
    /\ snapshots' = Append(snapshots,
                           ExportProgress(MaxOf(Depths(batch')), Len(services), Len(edges),
                                          Len(queue')))
    /\ UNCHANGED <<visited, services, edges, result, enq_log, batches>>
    /\ UNCHANGED <<emitted, run_no, prior, lookup, early_cancels>>
    /\ UNCHANGED <<scan_vars, parse_vars, cfg_vars, env_vars, cancelled>>

\* Mutant: a response with fewer entities than ids requested ends the run
\* in a failure.
FetchDoneRequiresAll ==
    /\ pc = "fetch"
    /\ gpc = "returned"
    /\ \E st \in {IF Len(gw_body) < Len(batch)
                   THEN TState(visited, queue, services, enq_log)
                   ELSE ProcessServices(gw_body, batch, graph,
                                        TState(visited, queue, services, enq_log))} :
           /\ visited' = st.visited
           /\ queue' = st.queue
           /\ services' = st.services
           /\ enq_log' = st.enq_log
    /\ batches' = Append(batches, [ids |-> Ids(batch), outcome |-> "ok",
                                   body |-> gw_body])
    /\ pc' = IF Len(gw_body) < Len(batch) THEN "done" ELSE "loop"
    /\ result' = IF Len(gw_body) < Len(batch)
                 THEN ExportResult(FALSE, "API error", Len(services), Len(edges), 0)
                 ELSE result
    /\ gpc' = "idle"
    /\ UNCHANGED <<edges, batch, max_depth>>
    /\ UNCHANGED <<retries, backoff, gw_body, gw_error, http_log, sleeps>>
    /\ UNCHANGED <<session, scan_vars, parse_vars, run_vars, cfg_vars, env_vars, cancelled>>

\* The batch came back: every service is recorded and its targets enqueued.
FetchDone ==
    /\ pc = "fetch"
    /\ gpc = "returned"
    /\ \E st \in {ProcessServices(gw_body, batch, graph,
                                  TState(visited, queue, services, enq_log))} :
           /\ visited' = st.visited
           /\ queue' = st.queue
           /\ services' = st.services
           /\ enq_log' = st.enq_log
    /\ batches' = Append(batches, [ids |-> Ids(batch), outcome |-> "ok",
                                   body |-> gw_body])
    /\ pc' = "loop"
    /\ gpc' = "idle"
    /\ UNCHANGED <<edges, batch, max_depth, result>>
    /\ UNCHANGED <<retries, backoff, gw_body, gw_error, http_log, sleeps>>
    /\ UNCHANGED <<session, scan_vars, parse_vars, run_vars, cfg_vars, env_vars, cancelled>>

\* The 200 body carries, after the entities asked for, an entity whose id
\* was not among the requested ids: the loop over the response records it
\* and follows its calls like any other.
FetchDoneStray ==
    /\ pc = "fetch"
    /\ gpc = "returned"
    /\ \E x \in CoreIds \ Range(Ids(batch)) :
       \E body \in {gw_body \o <<x>>} :
       \E st \in {ProcessServices(body, batch, graph,
                                  TState(visited, queue, services, enq_log))} :
           /\ visited' = st.visited
           /\ queue' = st.queue
           /\ services' = st.services
           /\ enq_log' = st.enq_log
           /\ batches' = Append(batches, [ids |-> Ids(batch), outcome |-> "ok",
                                          body |-> body])
    /\ pc' = "loop"
    /\ gpc' = "idle"
    /\ UNCHANGED <<edges, batch, max_depth, result>>
    /\ UNCHANGED <<retries, backoff, gw_body, gw_error, http_log, sleeps>>
    /\ UNCHANGED <<session, scan_vars, parse_vars, run_vars, cfg_vars, env_vars, cancelled>>

\* The 200 body is JSON but not an object: response.get raises
\* AttributeError in fetch_services_by_ids, the loop's handler (which takes
\* DynatraceAPIError only) lets it pass, and run()'s last handler returns
\* the failure.
FetchRaises ==
    /\ pc = "fetch"
    /\ gpc = "returned"
    /\ result' = ExportResult(FALSE, "Unexpected error", 0, 0, 0)
    /\ batches' = Append(batches, [ids |-> Ids(batch), outcome |-> "raised",
                                   body |-> <<>>])
    /\ pc' = "done"
    /\ gpc' = "idle"
    /\ UNCHANGED <<visited, queue, services, enq_log, edges, batch, max_depth>>
    /\ UNCHANGED <<retries, backoff, gw_body, gw_error, http_log, sleeps>>
    /\ UNCHANGED <<session, scan_vars, parse_vars, run_vars, cfg_vars, env_vars, cancelled>>

\* Mutant: the error is not caught in the loop; it reaches run()'s handler,
\* which returns a failure.
FetchExceptAborts ==
    /\ pc = "fetch"
    /\ gpc = "raised"
    /\ batches' = Append(batches,
           [ids |-> Ids(batch),
            outcome |-> IF gw_error.reason = "cancelled" THEN "cancelled" ELSE "failed",
            body |-> <<>>])
    /\ result' = ExportResult(FALSE, "API error", Len(services), Len(edges), 0)
    /\ pc' = "done"
    /\ gpc' = "idle"
    /\ UNCHANGED <<visited, queue, services, edges, batch, max_depth, enq_log>>
    /\ UNCHANGED <<retries, backoff, gw_body, gw_error, http_log, sleeps>>
    /\ UNCHANGED <<session, scan_vars, parse_vars, run_vars, cfg_vars, env_vars, cancelled>>

\* `except DynatraceAPIError as e: log; continue`
FetchExcept ==
    /\ pc = "fetch"
    /\ gpc = "raised"
    /\ batches' = Append(batches,
           [ids |-> Ids(batch),
            outcome |-> IF gw_error.reason = "cancelled" THEN "cancelled" ELSE "failed",
            body |-> <<>>])
    /\ pc' = "loop"
    /\ gpc' = "idle"
    /\ UNCHANGED <<visited, queue, services, edges, batch, max_depth, result, enq_log>>
    /\ UNCHANGED <<retries, backoff, gw_body, gw_error, http_log, sleeps>>
    /\ UNCHANGED <<session, scan_vars, parse_vars, run_vars, cfg_vars, env_vars, cancelled>>

\* Mutant: a run that discovered nothing ends in a failure.
FinishEmptyFails ==
    /\ pc = "post"
    /\ services = <<>>
    /\ result' = ExportResult(FALSE, "No services found. Check if root IDs are valid.",
                              0, 0, 0)
    /\ pc' = "done"
    /\ UNCHANGED <<visited, queue, services, edges, batch, max_depth, enq_log, batches>>
    /\ UNCHANGED <<session, scan_vars, parse_vars, run_vars, gw_vars, cfg_vars, env_vars, cancelled>>

\* Mutant: a run that discovered nothing goes on to the export.
FinishEmptyExports ==
    /\ pc = "post"
    /\ services = <<>>
    /\ result' = ExportResult(TRUE, "Export completed successfully",
                              0, 0, max_depth)
    /\ pc' = "done"
    /\ UNCHANGED <<visited, queue, services, edges, batch, max_depth, enq_log, batches>>
    /\ UNCHANGED <<session, scan_vars, parse_vars, run_vars, gw_vars, cfg_vars, env_vars, cancelled>>

\* run() after the traversal, nothing discovered
FinishEmpty ==
    /\ pc = "post"
    /\ services = <<>>
    /\ result' = ExportResult(TRUE, "No services found. Check if root IDs are valid.",
                              0, 0, 0)
    /\ pc' = "done"
    /\ UNCHANGED <<visited, queue, services, edges, batch, max_depth, enq_log, batches>>
    /\ UNCHANGED <<session, scan_vars, parse_vars, run_vars, gw_vars, cfg_vars, env_vars, cancelled>>

\* What writing the output files ends in
ExportOutcomes == {"ok", "IOError", "Exception"}

\* run() after the traversal: _build_edges, the data frame and the export
FinishExport ==
    /\ pc = "post"
    /\ services # <<>>
    /\ \E built \in {edges \o BuildEdges(graph, services, services)} :
         /\ edges' = built
         /\ \E x \in ExportOutcomes :
              result' =
                IF x = "ok"
                THEN ExportResult(TRUE, "Export completed successfully",
                                  Len(services), Len(built), max_depth)
                ELSE IF x = "IOError"
                THEN ExportResult(FALSE, "Failed to write output file",
                                  Len(services), Len(built), 0)
                ELSE ExportResult(FALSE, "Unexpected error", 0, 0, 0)
    /\ pc' = "done"
    /\ UNCHANGED <<visited, queue, services, batch, max_depth, enq_log, batches>>
    /\ UNCHANGED <<session, scan_vars, parse_vars, run_vars, gw_vars, cfg_vars, env_vars, cancelled>>

\* Mutant: a failed result is not emitted.
WorkerEndSilentOnFailure ==
    /\ pc = "done"
    /\ pc' = "ended"
    /\ session' = CloseSession(session)
    /\ UNCHANGED <<visited, queue, services, edges, batch, max_depth, result,
                   enq_log, batches>>
    /\ UNCHANGED <<scan_vars, parse_vars, gw_vars, cfg_vars, env_vars, cancelled>>
    /\ emitted' = IF result.success THEN Append(emitted, result) ELSE emitted
    /\ UNCHANGED <<run_no, prior, lookup, snapshots, early_cancels>>

\* ExportWorker.run after exporter.run() returned: the result is emitted
\* and the finally clause closes the client.
WorkerEnd ==
    /\ pc = "done"
    /\ pc' = "ended"
    /\ session' = CloseSession(session)
    /\ UNCHANGED <<visited, queue, services, edges, batch, max_depth, result,
                   enq_log, batches>>
    /\ UNCHANGED <<scan_vars, parse_vars, gw_vars, cfg_vars, env_vars, cancelled>>
    /\ emitted' = Append(emitted, result)
    /\ UNCHANGED <<run_no, prior, lookup, snapshots, early_cancels>>

\* Pagination of the full scan.  A cursor or an optional setting is an
\* integer: 0 is None (absent), -1 the empty string, a positive number a
\* non-empty value; a page's cursor is the number of the page it opens.

\* `if x:` for an optional string or number
IsSet(x) == x > 0

\* Config.page_size
DefaultPageSize == 500

\* The filter parameters of the first request and the values given for them
FilterParams(entity_selector, fields, page_size, from_t, to_t) ==
    {<<"entitySelector", entity_selector>>, <<"fields", fields>>,
     <<"pageSize", page_size>>, <<"from", from_t>>, <<"to", to_t>>}

\* fetch_entities_page: the params of the request it sends
FetchEntitiesPage(npk, entity_selector, fields, page_size, from_t, to_t) ==
    IF IsSet(npk)
    THEN [names |-> {"nextPageKey"}, nextPageKey |-> npk]
    ELSE [names |-> {f[1] : f \in {x \in FilterParams(entity_selector, fields, page_size,
                                                       from_t, to_t) : IsSet(x[2])}},
          nextPageKey |-> 0]

\* Mutant: every request is made as the initial one.
PageRequestAlwaysFirst(npk, from_t, to_t) ==
    FetchEntitiesPage(0, 1, 1, DefaultPageSize, from_t, to_t)

\* The call fetch_all_services makes for the cursor it holds
PageRequest(npk, from_t, to_t) ==
    IF IsSet(npk)
    THEN FetchEntitiesPage(npk, 0, 0, 0, 0, 0)
    ELSE FetchEntitiesPage(0, 1, 1, DefaultPageSize, from_t, to_t)

\* The page the backend serves for a request: the one its cursor opens, the
\* first one for a request without cursor
PageServed(req) == IF "nextPageKey" \in req.names THEN req.nextPageKey ELSE 1

\* A scan makes at most MaxPageRequests page requests
MaxPageRequests == 4

----------------------------------------------------------------------------
(* Actions of the full scan: dynatrace_service_topology.main *)

\* DynatraceClient(config): the constructor opens the session;
\* TopologyExtractor(client, config) starts with empty collections.
ScanStart ==
    /\ spc = "start"
    /\ session' = "open"
    /\ spc' = "fetch"
    /\ UNCHANGED <<pages, next_page_key, all_entities, id_to_name, scan_edges,
                   unknown_ids, final_edges, csv_rows>>
    /\ UNCHANGED <<cursors, from_time, to_time, page_requests, failing_ids>>
    /\ UNCHANGED <<parse_vars, run_vars>>
    /\ UNCHANGED <<gw_vars, cfg_vars, env_vars, bfs_vars, cancelled>>

\* Mutant: the loop stops after every page, whatever cursor came with it.
ScanFetchPageStopsAlways ==
    /\ spc = "fetch"
    /\ Len(page_requests) < MaxPageRequests
    /\ \E req \in {PageRequest(next_page_key, from_time, to_time)} :
         /\ page_requests' = Append(page_requests, req)
         /\ all_entities' = all_entities \o pages[PageServed(req)]
         /\ next_page_key' = cursors[PageServed(req)]
         /\ spc' = "fetched"
    /\ UNCHANGED <<pages, id_to_name, scan_edges, unknown_ids, final_edges, csv_rows>>
    /\ UNCHANGED <<cursors, from_time, to_time, failing_ids>>
    /\ UNCHANGED <<parse_vars, run_vars>>
    /\ UNCHANGED <<session, gw_vars, cfg_vars, env_vars, bfs_vars, cancelled>>

\* One turn of the loop of fetch_all_services: the page is fetched and its
\* entities appended, or the gateway raises and main() exits with status 1.
ScanFetchPage ==
    /\ spc = "fetch"
    /\ Len(page_requests) < MaxPageRequests
    /\ \E req \in {PageRequest(next_page_key, from_time, to_time)} :
         /\ page_requests' = Append(page_requests, req)
         /\ LET k == PageServed(req)
                key == cursors[k]
            IN  \/ /\ all_entities' = all_entities \o pages[k]
                   /\ next_page_key' = key
                   /\ spc' = IF IsSet(key) THEN "fetch" ELSE "fetched"
                \/ /\ spc' = "failed"
                   /\ UNCHANGED <<all_entities, next_page_key>>
    /\ UNCHANGED <<pages, id_to_name, scan_edges, unknown_ids, final_edges, csv_rows>>
    /\ UNCHANGED <<cursors, from_time, to_time, failing_ids>>
    /\ UNCHANGED <<parse_vars, run_vars>>
    /\ UNCHANGED <<session, gw_vars, cfg_vars, env_vars, bfs_vars, cancelled>>

\* TopologyExtractor.run after the fetch: nothing found, or
\* build_id_to_name_map and extract_relationships
ScanExtract ==
    /\ spc = "fetched"
    /\ IF all_entities = <<>>
       THEN /\ final_edges' = <<>>
            /\ spc' = "write"
            /\ UNCHANGED <<id_to_name, scan_edges, unknown_ids>>
       ELSE \E m \in {BuildIdToNameMap(graph, id_to_name, all_entities)} :
            \E st \in {ExtractRelationships(graph, m, XState(scan_edges, unknown_ids),
                                            all_entities)} :
                /\ id_to_name' = m
                /\ scan_edges' = st.edges
                /\ unknown_ids' = st.unknown
                /\ spc' = IF st.unknown = {} THEN "finalize" ELSE "resolve"
                /\ final_edges' = final_edges
    /\ UNCHANGED <<pages, next_page_key, all_entities, csv_rows>>
    /\ UNCHANGED <<cursors, from_time, to_time, page_requests, failing_ids>>
    /\ UNCHANGED <<parse_vars, run_vars>>
    /\ UNCHANGED <<session, gw_vars, cfg_vars, env_vars, bfs_vars, cancelled>>

\* resolve_unknown_ids: each lookup finds the entity, returns None (the ids
\* of stale) or raises (some of the others)
ScanResolve ==
    /\ spc = "resolve"
    /\ \E failing \in SUBSET unknown_ids :
       \E st \in {ResolveUnknownIds(graph,
                        [names |-> id_to_name, unknown |-> unknown_ids],
                        SeqOf(unknown_ids), stale, failing)} :
           /\ id_to_name' = st.names
           /\ unknown_ids' = st.unknown
           /\ failing_ids' = failing
    /\ spc' = "finalize"
    /\ UNCHANGED <<pages, next_page_key, all_entities, scan_edges, final_edges, csv_rows>>
    /\ UNCHANGED <<cursors, from_time, to_time, page_requests>>
    /\ UNCHANGED <<parse_vars, run_vars>>
    /\ UNCHANGED <<session, gw_vars, cfg_vars, env_vars, bfs_vars, cancelled>>

\* finalize_edges: the set is iterated in some order
ScanFinalize ==
    /\ spc = "finalize"
    /\ \E es \in IterationOrders(scan_edges) :
           final_edges' = FinalizeEdges(id_to_name, es)
    /\ spc' = "write"
    /\ UNCHANGED <<pages, next_page_key, all_entities, id_to_name, scan_edges,
                   unknown_ids, csv_rows>>
    /\ UNCHANGED <<cursors, from_time, to_time, page_requests, failing_ids>>
    /\ UNCHANGED <<parse_vars, run_vars>>
    /\ UNCHANGED <<session, gw_vars, cfg_vars, env_vars, bfs_vars, cancelled>>

\* write_csv and the end of main(): the rows are written one by one, in
\* the order of sorted(edges), and main returns; or the file cannot be opened
\* or a write fails, after some of the rows (none, or all of them when the
\* file cannot be closed), and main() exits with status 1
ScanWriteCsv ==
    /\ spc = "write"
    /\ \E rows \in {Sorted(final_edges)} :
           \/ /\ csv_rows' = rows
              /\ spc' = "done"
           \/ /\ \E k \in 0..Len(rows) : csv_rows' = SubSeq(rows, 1, k)
              /\ spc' = "failed"
    /\ UNCHANGED <<pages, next_page_key, all_entities, id_to_name, scan_edges,
                   unknown_ids, final_edges>>
    /\ UNCHANGED <<cursors, from_time, to_time, page_requests, failing_ids>>
    /\ UNCHANGED <<parse_vars, run_vars>>
    /\ UNCHANGED <<session, gw_vars, cfg_vars, env_vars, bfs_vars, cancelled>>

----------------------------------------------------------------------------
(* Specifications *)

FillRoots == [i \in 1..NumFill |-> Plain(FillIds[i])]

\* The root lists a run is started with
RootLists ==
    { <<>>, <<Plain(0)>>, <<Padded(0)>>,
      <<Plain(1)>>, <<Plain(3)>>, <<Plain(1), Plain(2)>>, <<Padded(1), Plain(1)>>,
      <<Plain(2), Plain(0), Plain(1)>>,
      FillRoots \o <<Plain(1), Plain(2)>> }

StaleChoices == {{}, {3}}

\* The calls a backend may list twice (explored for the runs of one batch
\* of roots against a backend that knows every id)
TwiceChoices == {{}, {<<1, 2>>}}

\* No response is being decoded on its own
ParseIdle ==
    /\ ppc = "idle"
    /\ raw_entities = <<>>
    /\ decoded = <<>>
    /\ fetched_services = <<>>
    /\ extracted = [raised |-> FALSE, edges |-> {}, unknown |-> {}]

\* run() has not been called
RunIdle ==
    /\ emitted = <<>>
    /\ run_no = 0
    /\ prior = NoPrior
    /\ lookup = NoLookup
    /\ snapshots = <<>>
    /\ early_cancels = {}

\* No full scan runs
ScanIdle ==
    /\ spc = "idle"
    /\ pages = <<>>
    /\ next_page_key = 0
    /\ all_entities = <<>>
    /\ id_to_name = EmptyMap
    /\ scan_edges = {}
    /\ unknown_ids = {}
    /\ final_edges = <<>>
    /\ csv_rows = <<>>
    /\ cursors = <<>>
    /\ from_time = 0
    /\ to_time = 0
    /\ page_requests = <<>>
    /\ failing_ids = {}

GwIdle ==
    /\ gpc = "idle"
    /\ retries = 0
    /\ backoff = 0
    /\ gw_body = <<>>
    /\ gw_error = NoError
    /\ http_log = <<>>
    /\ sleeps = <<>>

\* A worker about to run a traversal through the bfs gateway with the
\* default ClientConfig.
Init ==
    /\ gateway = "bfs"
    /\ max_retries = DefaultMaxRetries
    /\ initial_backoff = DefaultInitialBackoff
    /\ max_backoff = DefaultMaxBackoff
    /\ GwIdle
    /\ graph \in SUBSET CandEdges
    /\ stale \in StaleChoices
    /\ root_ids \in RootLists
    /\ batch_size \in {b \in {MinBatchSize, DefaultBatchSize, MaxBatchSize} :
                          \/ b = DefaultBatchSize
                          \/ graph = {} /\ stale = {}}
    /\ twice \in {t \in TwiceChoices :
                     \/ t = {}
                     \/ t \subseteq graph /\ stale = {} /\ Len(root_ids) < BatchSize}
    /\ pc = "start"
    /\ visited = {}
    /\ queue = <<>>
    /\ services = <<>>
    /\ edges = <<>>
    /\ cancelled = FALSE
    /\ batch = <<>>
    /\ max_depth = 0
    /\ result = NoResult
    /\ enq_log = <<>>
    /\ batches = <<>>
    /\ session = "none"
    /\ ScanIdle
    /\ ParseIdle
    /\ RunIdle

WorkerNext ==
    \/ CreateExporter
    \/ Run
    \/ LoopExit
    \/ LoopCancelled
    \/ LoopDequeue
    \/ GwLoop
    \/ GwHttp
    \/ GwSleep
    \/ FetchDone
    \/ FetchExcept
    \/ FinishEmpty
    \/ FinishExport
    \/ WorkerEnd

Next == WorkerNext \/ Cancel

Spec == Init /\ [][Next]_vars

\* One _execute_with_retry call made on its own, of either gateway, under
\* every configuration within the bounds.
InitRetry ==
    /\ gateway \in {"bfs", "scan"}
    /\ max_retries \in 0..MaxRetriesBound
    /\ initial_backoff \in 1..MaxBackoffBound
    /\ max_backoff \in 1..MaxBackoffBound
    /\ batch_size = DefaultBatchSize
    /\ gpc = "loop"
    /\ retries = 0
    /\ backoff = initial_backoff
    /\ gw_body = <<>>
    /\ gw_error = NoError
    /\ http_log = <<>>
    /\ sleeps = <<>>
    /\ graph = {}
    /\ stale = {}
    /\ twice = {}
    /\ root_ids = <<>>
    /\ pc = "call"
    /\ visited = {}
    /\ queue = <<>>
    /\ services = <<>>
    /\ edges = <<>>
    /\ cancelled = FALSE
    /\ batch = <<>>
    /\ max_depth = 0
    /\ result = NoResult
    /\ enq_log = <<>>
    /\ batches = <<>>
    /\ session = "open"
    /\ ScanIdle
    /\ ParseIdle
    /\ RunIdle

\* TopologyExporter.cancel sets the flag behind check_cancelled, whenever it
\* is called: while the call runs, when it has ended and after the lookup.
CancelCall ==
    /\ pc = "call"
    /\ gateway = "bfs"
    /\ cancelled' = TRUE
    /\ UNCHANGED <<session, scan_vars, parse_vars, run_vars, gw_vars, cfg_vars, env_vars, bfs_vars>>

\* The lookup that made the call ends: its handler decides what the caller
\* gets.
LookupEnd ==
    /\ pc = "call"
    /\ gpc \in {"returned", "raised"}
    /\ lookup = NoLookup
    /\ lookup' = IF gateway = "scan"
                 THEN FetchEntityById(gpc, gw_body, gw_error)
                 ELSE FetchSingleService(gpc, gw_body, gw_error)
    /\ UNCHANGED <<emitted, run_no, prior, snapshots, early_cancels>>
    /\ UNCHANGED <<session, scan_vars, parse_vars, gw_vars, cfg_vars, env_vars, bfs_vars,
                   cancelled>>

NextRetry == GwLoop \/ GwHttp \/ GwSleep \/ CancelCall \/ LookupEnd

SpecRetry == InitRetry /\ [][NextRetry]_vars

\* The edges extract_relationships collects from the pages pg of a backend
\* that holds the calls g
ScanEdgesOf(g, pg) ==
    ExtractRelationships(g, BuildIdToNameMap(g, EmptyMap, Concat(pg)),
                         XState({}, {}), Concat(pg)).edges

\* The scans explored collect at most MaxScanEdges edges (finalize_edges
\* iterates the set in any of its orders)
MaxScanEdges == 3

\* The ways the backend pages the entities of a scan (0: an entity record
\* without entityId)
PageLayouts ==
    { <<<<>>>>,
      <<<<1, 2, 3, 4>>>>,
      <<<<2, 1>>>>,
      <<<<3>>, <<1, 2>>>>,
      <<<<1>>, <<>>, <<0, 2>>>> }

\* The cursors a backend returns with the pages pg: each page opens the next
\* one and the last response has no nextPageKey or an empty one, or the last
\* page opens the first one again
CursorChoices(pg) ==
    {[k \in 1..Len(pg) |-> IF k < Len(pg) THEN k + 1 ELSE last] : last \in {0, -1, 1}}

\* main() about to construct the client, against any backend graph
InitScan ==
    /\ gateway = "scan"
    /\ max_retries = DefaultMaxRetries
    /\ initial_backoff = DefaultInitialBackoff
    /\ max_backoff = DefaultMaxBackoff
    /\ batch_size = DefaultBatchSize
    /\ GwIdle
    /\ graph \in SUBSET CandEdges
    /\ stale \in StaleChoices
    /\ twice = {}
    /\ root_ids = <<>>
    /\ pc = "scan"
    /\ visited = {}
    /\ queue = <<>>
    /\ services = <<>>
    /\ edges = <<>>
    /\ cancelled = FALSE
    /\ batch = <<>>
    /\ max_depth = 0
    /\ result = NoResult
    /\ enq_log = <<>>
    /\ batches = <<>>
    /\ session = "none"
    /\ spc = "start"
    /\ pages \in PageLayouts
    /\ Cardinality(ScanEdgesOf(graph, pages)) <= MaxScanEdges
    /\ next_page_key = 0
    /\ all_entities = <<>>
    /\ id_to_name = EmptyMap
    /\ scan_edges = {}
    /\ unknown_ids = {}
    /\ final_edges = <<>>
    /\ csv_rows = <<>>
    /\ cursors \in CursorChoices(pages)
    /\ from_time \in {0, 1}
    /\ to_time \in {0, 1}
    /\ page_requests = <<>>
    /\ failing_ids = {}
    /\ ParseIdle
    /\ RunIdle

NextScan ==
    \/ ScanStart
    \/ ScanFetchPage
    \/ ScanExtract
    \/ ScanResolve
    \/ ScanFinalize
    \/ ScanWriteCsv

SpecScan == InitScan /\ [][NextScan]_vars

\* Scans of an empty backend graph, of a path of calls and of a cycle of
\* calls.  main() runs its
\* sequential code to the end, and every HTTP request ends (session.get has
\* a timeout): each of its steps is taken.
InitScanLive ==
    /\ InitScan
    /\ graph \in {{}, {<<2, 3>>, <<3, 1>>}, {<<1, 2>>, <<2, 3>>, <<3, 1>>}}

SpecScanLive == InitScanLive /\ [][NextScan]_vars /\ WF_vars(NextScan)

\* Runs from one or two roots, against a backend that lists each call once
InitLive ==
    /\ Init
    /\ root_ids \in {<<Plain(1)>>, <<Plain(2), Plain(0), Plain(1)>>}
    /\ twice = {}

\* run() may be called a second time on the exporter once it has returned,
\* and a response body may be something else than a JSON object
InitTwice ==
    /\ Init
    /\ graph \in {{}, {<<1, 2>>, <<2, 3>>, <<3, 1>>}, {<<1, 2>>, <<1, 3>>, <<3, 4>>}}
    /\ root_ids \in {<<Plain(1)>>, <<Plain(2), Plain(0), Plain(1)>>, <<Padded(0)>>}
    /\ twice = {}
    /\ batch_size = DefaultBatchSize

NextTwice == Next \/ RunAgain \/ FetchRaises

SpecTwice == InitTwice /\ [][NextTwice]_vars

\* A backend may add to an answer an entity that was not asked for
InitStray ==
    /\ Init
    /\ graph \in {{}, {<<1, 2>>, <<2, 3>>, <<3, 1>>}, {<<1, 2>>, <<1, 3>>, <<3, 4>>}}
    /\ root_ids \in {<<Plain(1)>>, <<Plain(2), Plain(0), Plain(1)>>}
    /\ stale = {}
    /\ twice = {}
    /\ batch_size = DefaultBatchSize

NextStray == Next \/ FetchDoneStray

SpecStray == InitStray /\ [][NextStray]_vars

\* The run with the calls of ExportWorker.cancel the interface thread can
\* make from the start of the worker thread on.
InitEarly ==
    /\ Init
    /\ graph \in {{}, {<<1, 2>>, <<2, 3>>, <<3, 1>>}, {<<1, 2>>, <<1, 3>>, <<3, 4>>}}
    /\ Len(root_ids) <= 3
    /\ stale = {}
    /\ twice = {}
    /\ batch_size = DefaultBatchSize

NextEarly == Next \/ WorkerCancel

SpecEarly == InitEarly /\ [][NextEarly]_vars

\* The worker thread runs its sequential code to the end, and every HTTP
\* request ends (session.get has a timeout): each of its steps is taken.
SpecLive == InitLive /\ [][Next]_vars /\ WF_vars(WorkerNext)

----------------------------------------------------------------------------
(* Decoding of the entity records of a response.                          *)
(* A JSON value is [kind, items]: an object carries a function from its    *)
(* keys to their values, an array a sequence, and any other value (null, a *)
(* string, a number where an object is expected) is Other.  Ids are        *)
(* integers, 0 the empty string.                                           *)

Dict(f) == [kind |-> "dict", items |-> f]
List(q) == [kind |-> "list", items |-> q]
Other   == [kind |-> "other", items |-> <<>>]
NoItems == [k \in {} |-> 0]

\* x.get(...) works on x; isinstance(x, list)
IsDict(x) == x.kind = "dict"
IsList(x) == x.kind = "list"

\* d.get(key, default)
Get(d, key, default) == IF key \in DOMAIN d.items THEN d.items[key] ELSE default

\* What a decoding that raised leaves
ParseError == [error |-> "AttributeError"]
IsError(x) == "error" \in DOMAIN x

\* Mutant: relationships of every declared type are kept.
KeepCallsOfAnyType(rels) ==
    LET ids == [i \in 1..Len(rels) |-> Get(rels[i], "id", 0)]
    IN  SelectSeq(ids, LAMBDA t : t # 0)

\* for rel in calls_data: if target_id and target_type == "SERVICE": append
RECURSIVE KeepCalls(_)
KeepCalls(rels) ==
    IF rels = <<>> THEN <<>>
    ELSE LET target_id   == Get(Head(rels), "id", 0)
             target_type == Get(Head(rels), "type", "")
         IN  (IF target_id # 0 /\ target_type = "SERVICE" THEN <<target_id>> ELSE <<>>)
             \o KeepCalls(Tail(rels))

\* ServiceEntity.from_api_response: the entity, or ParseError when a .get is
\* called on a value that is not an object
FromApiResponse(entity_data) ==
    IF ~IsDict(entity_data) THEN ParseError
    ELSE LET properties         == Get(entity_data, "properties", Dict(NoItems))
             from_relationships == Get(entity_data, "fromRelationships", Dict(NoItems))
         IN  IF ~IsDict(properties) \/ ~IsDict(from_relationships) THEN ParseError
             ELSE LET calls_data == Get(from_relationships, "calls", List(<<>>))
                  IN  IF /\ IsList(calls_data)
                         /\ \E i \in DOMAIN calls_data.items : ~IsDict(calls_data.items[i])
                      THEN ParseError
                      ELSE [entity_id          |-> Get(entity_data, "entityId", 0),
                            display_name       |-> Get(entity_data, "displayName", ""),
                            process_group      |-> Get(properties, "processGroup", ""),
                            web_application_id |-> Get(properties, "webApplicationId", ""),
                            web_server_name    |-> Get(properties, "webServerName", ""),
                            remote_endpoint    |-> Get(properties, "remoteEndpoint", ""),
                            service_type       |-> Get(properties, "serviceType", ""),
                            calls              |-> IF IsList(calls_data)
                                                   THEN KeepCalls(calls_data.items)
                                                   ELSE <<>>]

\* fetch_services_by_ids after the response: each record is decoded; one
\* that raises is logged and skipped
RECURSIVE ParseEntities(_)
ParseEntities(entities) ==
    IF entities = <<>> THEN <<>>
    ELSE LET made == {FromApiResponse(e) : e \in {Head(entities)}}
             service == CHOOSE x \in made : TRUE
         IN  (IF IsError(service) THEN <<>> ELSE <<service>>) \o ParseEntities(Tail(entities))

\* The state extract_relationships works on, and whether it has raised
RState(raised, es, unk) == [raised |-> raised, edges |-> es, unknown |-> unk]

\* One relationship list of extract_relationships: for each entry, in order,
\* the edge is added when the entry names a SERVICE and an id; an entry that
\* is not an object raises.  `outgoing` tells calls from called_by.
RECURSIVE AddRelationships(_, _, _, _, _)
AddRelationships(m, acc, entity_id, rels, outgoing) ==
    IF acc.raised \/ rels = <<>> THEN acc
    ELSE IF ~IsDict(Head(rels)) THEN [acc EXCEPT !.raised = TRUE]
    ELSE LET other_id   == Get(Head(rels), "id", 0)
             other_type == Get(Head(rels), "type", "")
             st == IF other_id # 0 /\ other_type = "SERVICE"
                   THEN IF outgoing
                        THEN AddEdge(m, XState(acc.edges, acc.unknown),
                                     entity_id, other_id, "CALLS")
                        ELSE AddEdge(m, XState(acc.edges, acc.unknown),
                                     other_id, entity_id, "CALLED_BY")
                   ELSE XState(acc.edges, acc.unknown)
         IN  AddRelationships(m, RState(FALSE, st.edges, st.unknown), entity_id,
                              Tail(rels), outgoing)

\* The body of the loop of extract_relationships for one record
ExtractOne(m, acc, entity) ==
    IF ~IsDict(entity) THEN [acc EXCEPT !.raised = TRUE]
    ELSE LET entity_id == Get(entity, "entityId", 0)
             from_rels == Get(entity, "fromRelationships", Dict(NoItems))
             to_rels   == Get(entity, "toRelationships", Dict(NoItems))
         IN  IF entity_id = 0 THEN acc
             ELSE IF ~IsDict(from_rels) THEN [acc EXCEPT !.raised = TRUE]
             ELSE LET calls == Get(from_rels, "calls", List(<<>>))
                      withCalls == IF IsList(calls)
                                   THEN AddRelationships(m, acc, entity_id, calls.items, TRUE)
                                   ELSE acc
                  IN  IF withCalls.raised THEN withCalls
                      ELSE IF ~IsDict(to_rels) THEN [withCalls EXCEPT !.raised = TRUE]
                      ELSE LET called_by == Get(to_rels, "called_by", List(<<>>))
                           IN  IF IsList(called_by)
                               THEN AddRelationships(m, withCalls, entity_id,
                                                     called_by.items, FALSE)
                               ELSE withCalls

\* extract_relationships over the records of a response: nothing catches an
\* exception, so the first record that raises ends it
RECURSIVE ExtractRaw(_, _, _)
ExtractRaw(m, acc, entities) ==
    IF acc.raised \/ entities = <<>> THEN acc
    ELSE LET next == {ExtractOne(m, acc, e) : e \in {Head(entities)}}
         IN  ExtractRaw(m, CHOOSE x \in next : TRUE, Tail(entities))

\* fetch_services_by_ids decodes the records of the response
ParseBatch ==
    /\ ppc = "start"
    /\ decoded' = [i \in 1..Len(raw_entities) |-> FromApiResponse(raw_entities[i])]
    /\ fetched_services' = ParseEntities(raw_entities)
    /\ ppc' = "parsed"
    /\ UNCHANGED <<raw_entities, extracted>>
    /\ UNCHANGED <<session, scan_vars, run_vars, gw_vars, cfg_vars, env_vars, bfs_vars, cancelled>>

\* extract_relationships runs over the same records
ExtractBatch ==
    /\ ppc = "parsed"
    /\ extracted' = ExtractRaw(EmptyMap, RState(FALSE, {}, {}), raw_entities)
    /\ ppc' = "extracted"
    /\ UNCHANGED <<raw_entities, decoded, fetched_services>>
    /\ UNCHANGED <<session, scan_vars, run_vars, gw_vars, cfg_vars, env_vars, bfs_vars, cancelled>>

\* Relationship entries
Rel(id, type) == Dict([k \in {"id", "type"} |-> IF k = "id" THEN id ELSE type])
RelNoId   == Dict([k \in {"type"} |-> "SERVICE"])
RelNoType == Dict([k \in {"id"} |-> 1])

\* An entity record with the given keys
Rec(id, calls, called_by) ==
    Dict([k \in {"entityId", "displayName", "fromRelationships", "toRelationships"} |->
            CASE k = "entityId" -> id
              [] k = "displayName" -> "svc-" \o ToString(id)
              [] k = "fromRelationships" -> Dict([j \in {"calls"} |-> calls])
              [] OTHER -> Dict([j \in {"called_by"} |-> called_by])])

\* The records a response is made of: well-formed ones with relationships
\* of several types, with absent keys and absent properties, and malformed
\* ones
RawSamples ==
    { Rec(1, List(<<Rel(2, "SERVICE"), Rel(3, "HOST"), Rel(0, "SERVICE"), Rel(4, "SERVICE")>>),
          List(<<Rel(3, "SERVICE")>>)),
      Dict([k \in {"entityId"} |-> 2]),
      Dict([k \in {"entityId", "properties", "fromRelationships"} |->
              CASE k = "entityId" -> 3
                [] k = "properties" ->
                     Dict([j \in {"processGroup", "serviceType"} |->
                             IF j = "processGroup" THEN "pg-3" ELSE "WEB_SERVICE"])
                [] OTHER ->
                     Dict([j \in {"calls"} |->
                             List(<<RelNoId, Rel(4, "SERVICE"), RelNoType,
                                    Rel(1, "SERVICE"), Rel(4, "SERVICE")>>)])]),
      Dict([k \in {"displayName", "fromRelationships"} |->
              IF k = "displayName" THEN "svc-0"
              ELSE Dict([j \in {"calls"} |-> List(<<Rel(1, "SERVICE")>>)])]),
      Rec(4, Other, List(<<Rel(2, "PROCESS_GROUP"), Rel(1, "SERVICE")>>)),
      Rec(4, List(<<Rel(1, "SERVICE"), Other, Rel(2, "SERVICE")>>), List(<<>>)),
      Dict([k \in {"entityId", "properties"} |-> IF k = "entityId" THEN 1 ELSE Other]),
      Dict([k \in {"entityId", "fromRelationships"} |-> IF k = "entityId" THEN 2 ELSE Other]),
      Other }

\* A response carries at most MaxRecords records
MaxRecords == 2

RECURSIVE SeqsUpTo(_, _)
SeqsUpTo(S, n) ==
    IF n = 0 THEN {<<>>}
    ELSE LET shorter == SeqsUpTo(S, n - 1)
         IN  shorter \cup {Append(q, x) : q \in shorter, x \in S}

\* A response is about to be decoded
InitParse ==
    /\ gateway = "bfs"
    /\ max_retries = DefaultMaxRetries
    /\ initial_backoff = DefaultInitialBackoff
    /\ max_backoff = DefaultMaxBackoff
    /\ batch_size = DefaultBatchSize
    /\ GwIdle
    /\ graph = {}
    /\ stale = {}
    /\ twice = {}
    /\ root_ids = <<>>
    /\ pc = "parse"
    /\ visited = {}
    /\ queue = <<>>
    /\ services = <<>>
    /\ edges = <<>>
    /\ cancelled = FALSE
    /\ batch = <<>>
    /\ max_depth = 0
    /\ result = NoResult
    /\ enq_log = <<>>
    /\ batches = <<>>
    /\ session = "open"
    /\ ScanIdle
    /\ ppc = "start"
    /\ raw_entities \in SeqsUpTo(RawSamples, MaxRecords)
    /\ decoded = <<>>
    /\ fetched_services = <<>>
    /\ extracted = RState(FALSE, {}, {})
    /\ RunIdle

NextParse == ParseBatch \/ ExtractBatch

SpecParse == InitParse /\ [][NextParse]_vars

----------------------------------------------------------------------------
(* Vocabulary of the properties *)

CancelledMessage == "HTTP 0: Export cancelled by user"

\* run() has returned
Done == pc \in {"done", "ended"}

\* run() keeps at least one of the roots: FilterRoots(root_ids) # <<>>
KeepsARoot == \E i \in DOMAIN root_ids : Truthy(root_ids[i]) /\ Strip(root_ids[i]) # 0

\* run() has returned after a traversal that ran until the queue was empty
TraversalCompleted ==
    /\ Done
    /\ result.message # CancelledMessage
    /\ KeepsARoot

\* Ids of the roots run() keeps
RootSet == Range(FilterRoots(root_ids))

Successors(g, S) == {e[2] : e \in {x \in g : x[1] \in S}}

\* Nodes reachable from S along calls relationships
RECURSIVE Reach(_, _)
Reach(g, S) ==
    LET N == S \cup Successors(g, S)
    IN  IF N = S THEN S ELSE Reach(g, N)

\* Length of the shortest calls-path from S to id (-1: none)
RECURSIVE DistFrom(_, _, _, _)
DistFrom(g, S, d, id) ==
    IF id \in S THEN d
    ELSE LET N == S \cup Successors(g, S)
         IN  IF N = S THEN -1 ELSE DistFrom(g, N, d + 1, id)

\* Every batch so far was answered, with all the entities it asked for
AllAnswered ==
    \A i \in DOMAIN batches :
        /\ batches[i].outcome = "ok"
        /\ Range(batches[i].body) = Range(batches[i].ids)

\* A sequence that holds no element twice
NoDuplicates(s) == Cardinality(Range(s)) = Len(s)

\* The ids appended to the queue so far, in order
Enqueued == Ids(enq_log)

\* The ids named in the batch requests so far, in order (the batch being
\* fetched included)
Requested ==
    Concat([i \in 1..Len(batches) |-> batches[i].ids])
    \o (IF pc = "fetch" THEN Ids(batch) ELSE <<>>)

EdgePairs(es) == {<<es[i].source_id, es[i].target_id>> : i \in DOMAIN es}

----------------------------------------------------------------------------
(* Properties of the traversal *)

\* C1: no id is appended to the queue more than once: the ids enqueued are
\* exactly the ids of visited, each enqueued once, and no id is named in more
\* than one batch request (nor twice in one).
C1_EnqueuedOnce ==
    /\ Range(Enqueued) = visited
    /\ NoDuplicates(Enqueued)
    /\ NoDuplicates(Requested)

\* A node called by two discovered services has been enqueued, and the run
\* has ended.
C1_Witness ==
    /\ Done
    /\ \E id \in visited :
         Cardinality({e \in graph : e[2] = id /\ e[1] \in Range(services)}) >= 2
    /\ Len(batches) >= 2

\* C2: when a run completes and every batch was answered with all the
\* entities requested, discovered is exactly the set of nodes reachable from
\* the roots and the edges are exactly the pairs (s, t) with s reachable and
\* s calls t.
C2_ReachableExactly ==
    (TraversalCompleted /\ AllAnswered) =>
        LET reachable == Reach(graph, RootSet)
        IN  /\ Range(services) = reachable
            /\ EdgePairs(edges) = {e \in graph : e[1] \in reachable}

\* roots = [1], 1 calls 2, 2 calls 3, 3 calls 1: discovered = {1, 2, 3},
\* edges = {(1,2), (2,3), (3,1)}
C2_Witness ==
    /\ TraversalCompleted /\ AllAnswered
    /\ root_ids = <<Plain(1)>>
    /\ graph = {<<1, 2>>, <<2, 3>>, <<3, 1>>}
    /\ Range(services) = {1, 2, 3}
    /\ EdgePairs(edges) = graph
    /\ Len(edges) = 3

\* Ids the run can ever meet: the roots and the nodes of the graph
KnownIds == RootSet \cup CoreIds

\* C3: a run terminates: no more ids are ever enqueued than there are ids,
\* and run() eventually returns.
C3_Terminates ==
    /\ [](Len(enq_log) <= Cardinality(KnownIds))
    /\ <>Done

\* A run over the cycle 1 -> 2 -> 3 -> 1 has returned with all of it
\* discovered.
C3_Witness ==
    /\ Done
    /\ {<<1, 2>>, <<2, 3>>, <<3, 1>>} \subseteq graph
    /\ {1, 2, 3} \subseteq Range(services)
    /\ result.success

\* C4: in a completed run whose batches were all answered, every node was
\* enqueued with the length of the shortest calls-path from a root to it,
\* and the depth the run reports is the largest of these.
C4_DepthIsShortest ==
    (TraversalCompleted /\ AllAnswered) =>
        /\ \A i \in DOMAIN enq_log :
             enq_log[i][2] = DistFrom(graph, RootSet, 0, enq_log[i][1])
        /\ result.success =>
             result.traversal_depth =
                 MaxOf(SortedSeq({DistFrom(graph, RootSet, 0, id) :
                                    id \in Reach(graph, RootSet)}))

\* C5: a run in which the gateway raised its cancellation error during a
\* batch fetch ends in the cancelled outcome, never in a success result.
C5_GatewayCancelEndsCancelled ==
    (Done /\ \E i \in DOMAIN batches : batches[i].outcome = "cancelled") =>
        /\ ~result.success
        /\ result.message = CancelledMessage

\* C6: a batch that fails with an API error does not abort the run: its ids
\* stay out of discovered, what earlier batches discovered is kept, and a
\* run that is not cancelled ends with the queue empty and every enqueued
\* id named in exactly one batch request.
C6_FailedBatchSkipped ==
    /\ \A i \in DOMAIN batches :
         /\ batches[i].outcome = "failed" =>
              Range(batches[i].ids) \cap Range(services) = {}
         /\ batches[i].outcome = "ok" =>
              Range(batches[i].body) \subseteq Range(services)
    /\ TraversalCompleted =>
         /\ queue = <<>>
         /\ Range(Requested) = visited
         /\ NoDuplicates(Requested)

\* A batch failed, a later one was fetched, and the run ended in success.
C6_Witness ==
    /\ Done
    /\ result.success
    /\ services # <<>>
    /\ \E i, j \in DOMAIN batches :
         /\ i < j
         /\ batches[i].outcome = "failed"
         /\ batches[j].outcome = "ok"
         /\ batches[j].body # <<>>

----------------------------------------------------------------------------
(* Properties of _execute_with_retry *)

Last(s) == s[Len(s)]

Ended == gpc \in {"returned", "raised"}

All429 == \A i \in DOMAIN http_log : http_log[i] = Response(429)

\* C7: when every attempt is answered 429 (and the call is not cancelled),
\* the call ends only after max_retries + 1 attempts, and it ends raising
\* the rate-limit error with status 429.
C7_ExhaustedAfterMaxRetriesPlusOne ==
    (All429 /\ ~cancelled) =>
        /\ Len(http_log) <= max_retries + 1
        /\ gpc # "returned"
        /\ (Ended \/ Len(http_log) = max_retries + 1) =>
             /\ gpc = "raised"
             /\ Len(http_log) = max_retries + 1
             /\ gw_error = [status |-> 429, reason |-> "rate limit"]

C7_Witness ==
    /\ All429 /\ ~cancelled
    /\ max_retries = 2
    /\ Len(http_log) = 3
    /\ gpc = "raised"
    /\ gw_error.status = 429

\* The request got 429 exactly max_retries times and then 200
RateLimitedThenOk ==
    /\ Len(http_log) = max_retries + 1
    /\ \A i \in 1..max_retries : http_log[i] = Response(429)
    /\ Last(http_log) = Response(200)

\* C8: when a request gets 429 exactly max_retries times and then 200, the
\* call returns, and its k-th sleep (k = 0 .. max_retries - 1) lasts
\* min(initial_backoff * 2^k, max_backoff).
C8_BackoffSequence ==
    RateLimitedThenOk =>
        /\ gpc = "returned"
        /\ Len(sleeps) = max_retries
        /\ \A k \in 0..(max_retries - 1) :
             sleeps[k + 1] = Min(initial_backoff * Pow2(k), max_backoff)

\* A response with a 4xx status other than 429
IsClientError(o) ==
    o.exc = "none" /\ o.status >= 400 /\ o.status < 500 /\ o.status # 429

\* C9: an attempt answered with a 4xx status other than 429 is the last of
\* its call: the call has raised that status, and no sleep followed (every
\* sleep of the call came before that attempt).
C9_ClientErrorFailsAtOnce ==
    \A i \in DOMAIN http_log :
        IsClientError(http_log[i]) =>
            /\ i = Len(http_log)
            /\ gpc = "raised"
            /\ gw_error.status = http_log[i].status
            /\ Len(sleeps) = i - 1

\* A 404 that follows a retried attempt, in the scan gateway
C9_Witness ==
    /\ gateway = "scan"
    /\ Len(http_log) = 2
    /\ http_log[2] = Response(404)
    /\ retries = 1
    /\ gpc = "raised"

\* C10: in both gateways an attempt that ends in a TLS failure is the last
\* of its call: the call has raised, and no sleep followed.
C10_TlsFailsAtOnce ==
    \A i \in DOMAIN http_log :
        http_log[i] = Raises("SSLError") =>
            /\ i = Len(http_log)
            /\ gpc = "raised"
            /\ Len(sleeps) = i - 1

\* The call has raised the cancellation error
RaisedCancelled ==
    gpc = "raised" /\ gw_error = [status |-> 0, reason |-> "cancelled"]

\* C11: in the bfs gateway the cancellation check comes before every HTTP
\* attempt, the first included: an attempt starts only from a check that
\* found the flag unset; a check that finds it set raises the cancellation
\* error without a request; and a call that raised it issues no request
\* afterwards.
C11_CancelCheckedBeforeEveryAttempt ==
    [][gateway = "bfs" =>
         /\ (gpc # "http" /\ gpc' = "http") => (gpc = "loop" /\ ~cancelled)
         /\ (http_log' # http_log) => gpc = "http"
         /\ (gpc = "loop" /\ retries <= max_retries /\ cancelled) =>
                (RaisedCancelled' /\ http_log' = http_log /\ sleeps' = sleeps)
         /\ RaisedCancelled => (RaisedCancelled' /\ http_log' = http_log)
      ]_vars

\* The flag was set before the first attempt: the call raised without any
\* request.
C11_Witness ==
    /\ gateway = "bfs"
    /\ RaisedCancelled
    /\ http_log = <<>>
    /\ sleeps = <<>>

----------------------------------------------------------------------------
(* Properties of cancellation and of the edge records *)

\* run() has built the edge records: the traversal completed and found
\* services
Materialized == TraversalCompleted /\ services # <<>>

\* The calls pairs of the services fetched so far
FetchedCalls == {e \in graph : e[1] \in Range(services)}

\* C12: a run that ends cancelled after services were fetched still holds
\* their call relationships as edge records: the edge list carries every
\* call of a fetched service and the result's edge count is its length.
C12_CancelledKeepsEdges ==
    (Done /\ result.message = CancelledMessage /\ services # <<>>) =>
        /\ ~result.success
        /\ EdgePairs(edges) = FetchedCalls
        /\ result.total_edges = Len(edges)
        /\ (FetchedCalls # {} => result.total_edges > 0)

\* C14: the cancellation flag is set-only: no step of the program takes it
\* from set to unset.
C14_FlagIsSetOnly == [][cancelled => cancelled']_vars

\* C15: _build_edges emits at most one edge record per (source_id,
\* target_id) pair.
C15_OneEdgePerPair == Cardinality(EdgePairs(edges)) = Len(edges)

\* Number of entries of the calls lists of the services ss
RECURSIVE CallCount(_, _)
CallCount(g, ss) ==
    IF ss = <<>> THEN 0
    ELSE Len(CallsOf(g, Head(ss))) + CallCount(g, Tail(ss))

\* An edge record whose target was not discovered carries the placeholder
UnknownTarget(e) ==
    /\ e.target_name = "UNKNOWN"
    /\ e.target_pg = ""
    /\ e.target_web_app_id = ""
    /\ e.target_remote_name = ""
    /\ e.target_web_server = ""

\* C18: once the edges are built, every entry t of the calls list of every
\* fetched service s has its edge record (s, t), also when t was never
\* fetched: that record then carries the name "UNKNOWN" and empty target
\* properties; there are as many records as calls entries.
C18_UnfetchedTargetsKept ==
    Materialized =>
        LET fetched == Range(services)
            \* the fetched services whose calls list is not empty
            callers == SelectSeq(services, LAMBDA s : CallsOf(graph, s) # <<>>)
        IN  /\ Len(edges) = CallCount(graph, callers)
            /\ \A s \in Range(callers) :
                 \A t \in Range(CallsOf(graph, s)) :
                     \E i \in DOMAIN edges :
                         /\ edges[i].source_id = s
                         /\ edges[i].target_id = t
                         /\ edges[i].relation = "CALLS"
                         /\ t \notin fetched => UnknownTarget(edges[i])
                         /\ t \in fetched =>
                              edges[i].target_name = ServiceEntity(graph, t).display_name

\* One target was not returned by the backend, another was in a batch that
\* failed; both have their edge with the placeholder.
C18_Witness ==
    /\ Materialized
    /\ \E i, j \in DOMAIN edges :
         /\ edges[i].target_id \in stale
         /\ UnknownTarget(edges[i])
         /\ UnknownTarget(edges[j])
         /\ \E k \in DOMAIN batches :
              /\ batches[k].outcome = "failed"
              /\ edges[j].target_id \in Range(batches[k].ids)

\* No element of the sequence of tuples is followed by a smaller one
Ascending(keys) ==
    \A i \in 1..(Len(keys) - 1) : ~TupleLess(keys[i + 1], keys[i])

\* (sourceId, sourceName, targetId, targetName, relation) of a row
RowKey(row) ==
    <<row.Source_ID, StrRank(row.Source_Name), row.Target_ID,
      StrRank(row.Target_Name), StrRank(row.RELATION)>>

\* C19: the rows of the data frame built from the edge list are in
\* ascending order of (sourceId, sourceName, targetId, targetName, relation).
C19_RowsSorted ==
    Materialized =>
        LET rows == CreateDataframe(edges)
        IN  Ascending([i \in 1..Len(rows) |-> RowKey(rows[i])])

----------------------------------------------------------------------------
(* Properties of the full scan and of the session *)

\* main() of the full scan has ended
ScanEnded == spc \in {"done", "failed"}

\* The worker thread of a BFS export has ended
WorkerEnded == pc = "ended"

\* (source_id, target_id) of the rows, as a set
RowPairs(rows) == {<<rows[i][1], rows[i][3]>> : i \in DOMAIN rows}

\* C13: once the BFS worker's run or the full-scan run has finished, the
\* session the run opened is not open any more.
C13_SessionReleased == (WorkerEnded \/ ScanEnded) => session # "open"

\* C16: the final edge list of a full scan holds no two rows with the same
\* (source_id, target_id) pair.
C16_ScanPairsUnique ==
    spc \in {"write", "done"} =>
        Cardinality(RowPairs(final_edges)) = Len(final_edges)

\* C17: every edge's source was fetched by the run: a key of discovered in
\* BFS mode, the id of a scanned entity in full-scan mode.
C17_SourceWasFetched ==
    /\ \A i \in DOMAIN edges : edges[i].source_id \in Range(services)
    /\ \A i \in DOMAIN final_edges : final_edges[i][1] \in Range(all_entities)

\* C20: the rows written by write_csv are the edges it was given, in
\* ascending order of the full tuple (source_id, source_name, target_id,
\* target_name, relationship): at every moment, and when a write has failed
\* too, the rows written are edges given, each once, in ascending order, and
\* every edge not written yet comes after all of them; when main() has
\* returned every edge is written.
C20_CsvRowsAscending ==
    /\ Ascending([i \in 1..Len(csv_rows) |-> EdgeKey(csv_rows[i])])
    /\ Range(csv_rows) \subseteq Range(final_edges)
    /\ Len(csv_rows) = Cardinality(Range(csv_rows))
    /\ \A i \in DOMAIN final_edges :
           final_edges[i] \notin Range(csv_rows) =>
               \A j \in DOMAIN csv_rows :
                   Ascending(<<EdgeKey(csv_rows[j]), EdgeKey(final_edges[i])>>)
    /\ spc = "done" =>
           /\ Len(csv_rows) = Len(final_edges)
           /\ Range(csv_rows) = Range(final_edges)

\* Three or more rows were written, two of them with the same source and
\* target, and the edges were not given in ascending order.
C20_Witness ==
    /\ spc = "done"
    /\ Len(csv_rows) >= 3
    /\ csv_rows # final_edges
    /\ \E i \in 1..(Len(csv_rows) - 1) :
         /\ csv_rows[i][1] = csv_rows[i + 1][1]
         /\ csv_rows[i][3] = csv_rows[i + 1][3]
         /\ csv_rows[i][5] = "CALLED_BY"
         /\ csv_rows[i + 1][5] = "CALLS"

----------------------------------------------------------------------------
(* Properties of the batches and of the results of a BFS run *)

\* C23: every batch request of a run names at least one id and at most
\* batch_size ids, batch_size being the batch size configured for the run,
\* and names exactly the entries dequeued for the batch.
C23_BatchWithinConfiguredSize ==
    /\ \A i \in DOMAIN batches :
         /\ Len(batches[i].ids) >= 1
         /\ Len(batches[i].ids) <= batch_size
    /\ pc = "fetch" =>
         /\ Len(batch) >= 1
         /\ Len(batch) <= batch_size
         /\ \A i \in DOMAIN batch : <<batch[i][1], batch[i][2]>> = enq_log[Len(Requested) - Len(batch) + i]

\* The ids a batch asked for and its response did not return
MissingIds(i) ==
    IF batches[i].outcome = "ok" /\ Len(batches[i].body) < Len(batches[i].ids)
    THEN Range(batches[i].ids) \ Range(batches[i].body)
    ELSE {}

\* Number of times id occurs in the sequence s
Count(id, s) == Cardinality({k \in DOMAIN s : s[k] = id})

\* C24: a batch answered with fewer entities than ids asked for raises no
\* error and the run goes on: the ids not returned stay in visited, are
\* enqueued only the once, are not in discovered, and a run that is not
\* cancelled still requests every id it enqueued and ends with the queue
\* empty, in none of the failure results of the traversal.
C24_ShortAnswerTolerated ==
    \A i \in DOMAIN batches :
        \A id \in MissingIds(i) :
            /\ id \in visited
            /\ Count(id, Enqueued) = 1
            /\ id \notin Range(services)
            /\ (Done /\ result.message # CancelledMessage) =>
                 /\ queue = <<>>
                 /\ Range(Requested) = visited
                 /\ result.message # "API error"

\* A batch came back without one of its ids, a service of the same response
\* calls that id, later batches were fetched and the run ended in success.
C24_Witness ==
    /\ Done
    /\ result.success
    /\ \E i \in DOMAIN batches :
         /\ i < Len(batches)
         /\ \E id \in MissingIds(i) :
              \E s \in Range(batches[i].body) : <<s, id>> \in graph

\* C25: when no batch of a run brought back an entity (the backend knows
\* none of the roots) and the run was not cancelled, discovered is empty and
\* run() returns a success result with zero services and zero edges.
C25_NoRootFoundIsSuccess ==
    (/\ Done
     /\ KeepsARoot
     /\ result.message # CancelledMessage
     /\ \A i \in DOMAIN batches : batches[i].body = <<>>) =>
        /\ services = <<>>
        /\ edges = <<>>
        /\ result.success
        /\ result.total_services = 0
        /\ result.total_edges = 0

\* The only root is an id the backend does not know: the batch was answered
\* with no entity and the run has returned.
C25_Witness ==
    /\ Done
    /\ RootSet \subseteq stale
    /\ Len(batches) = 1
    /\ batches[1].outcome = "ok"
    /\ batches[1].body = <<>>
    /\ result.success

----------------------------------------------------------------------------
(* Properties of the pagination of the full scan *)

FilterNames == {"entitySelector", "fields", "pageSize", "from", "to"}

\* The nextPageKey of the response to the i-th page request
ReturnedKey(i) == cursors[PageServed(page_requests[i])]

\* C21: the first page request carries the filter parameters (the selector,
\* the fields, the page size and the configured ends of the timeframe) and
\* no cursor; every later request carries only the nextPageKey of the
\* response before it; no request carries a cursor together with a filter
\* parameter.
C21_CursorNeverWithFilters ==
    \A i \in DOMAIN page_requests :
        LET r == page_requests[i]
        IN  /\ i = 1 =>
                 /\ "nextPageKey" \notin r.names
                 /\ r.names = {"entitySelector", "fields", "pageSize"}
                                \cup (IF from_time = 1 THEN {"from"} ELSE {})
                                \cup (IF to_time = 1 THEN {"to"} ELSE {})
            /\ i > 1 =>
                 /\ r.names = {"nextPageKey"}
                 /\ IsSet(r.nextPageKey)
                 /\ r.nextPageKey = ReturnedKey(i - 1)
            /\ "nextPageKey" \in r.names => r.names \cap FilterNames = {}

\* Three pages were fetched with a timeframe configured, and the scan went on.
C21_Witness ==
    /\ spc = "fetched"
    /\ Len(page_requests) = 3
    /\ from_time = 1
    /\ to_time = 1
    /\ all_entities # <<>>

\* Following the cursors from page k, within n more pages a response comes
\* without a nextPageKey or with an empty one
RECURSIVE ChainEnds(_, _)
ChainEnds(k, n) ==
    IF ~IsSet(cursors[k]) THEN TRUE
    ELSE IF n = 0 THEN FALSE
    ELSE ChainEnds(cursors[k], n - 1)

\* fetch_all_services has returned
FetchReturned == spc \in {"fetched", "resolve", "finalize", "write", "done"}

\* The entities of the pages served to the requests made, in request order
PagesFetched ==
    Concat([i \in 1..Len(page_requests) |-> pages[PageServed(page_requests[i])]])

\* C22: fetch_all_services asks for another page exactly when the last
\* response carried a non-empty nextPageKey and returns at the first response
\* without one; what it returns is the concatenation, in page order, of the
\* entities of every page fetched; and when the backend's chain of cursors
\* ends the loop ends, while it never returns when the chain does not end.
C22_PaginationStops ==
    /\ [](/\ \A i \in 1..(Len(page_requests) - 1) : IsSet(ReturnedKey(i))
          /\ (spc = "fetch" /\ page_requests # <<>>) =>
                 IsSet(ReturnedKey(Len(page_requests)))
          /\ FetchReturned =>
                 /\ ~IsSet(ReturnedKey(Len(page_requests)))
                 /\ all_entities = PagesFetched
                 /\ ChainEnds(1, Len(cursors)))
    /\ [](ChainEnds(1, Len(cursors)) => <>(spc \notin {"start", "fetch"}))

\* Three pages were fetched, the second one empty and the third one answered
\* with an empty nextPageKey, and fetch_all_services returned them in order.
C22_Witness ==
    /\ FetchReturned
    /\ Len(page_requests) = 3
    /\ cursors[3] = -1
    /\ all_entities = <<1, 0, 2>>

----------------------------------------------------------------------------
(* Properties of the decoding of the records of a response *)

\* The responses have been decoded
Parsed == ppc \in {"parsed", "extracted"}

\* The relationships a record lists under fromRelationships.calls
ListedCalls(rec) ==
    IF /\ "fromRelationships" \in DOMAIN rec.items
       /\ "calls" \in DOMAIN rec.items["fromRelationships"].items
       /\ rec.items["fromRelationships"].items["calls"].kind = "list"
    THEN rec.items["fromRelationships"].items["calls"].items
    ELSE <<>>

\* The positions of the relationships that declare the type SERVICE and a
\* non-empty id
ServiceTargets(rels) ==
    {i \in DOMAIN rels : /\ "type" \in DOMAIN rels[i].items
                         /\ rels[i].items["type"] = "SERVICE"
                         /\ "id" \in DOMAIN rels[i].items
                         /\ rels[i].items["id"] # 0}

\* The named properties and the fields they fill
PropertyOf ==
    [f \in {"process_group", "web_application_id", "web_server_name",
            "remote_endpoint", "service_type"} |->
        CASE f = "process_group" -> "processGroup"
          [] f = "web_application_id" -> "webApplicationId"
          [] f = "web_server_name" -> "webServerName"
          [] f = "remote_endpoint" -> "remoteEndpoint"
          [] OTHER -> "serviceType"]

\* C26: a decoded entity's calls are, in the order of the record, exactly
\* the ids of the fromRelationships.calls entries that declare the type
\* SERVICE and a non-empty id, every other entry being dropped, and each
\* named property the record does not carry is the empty string.
C26_KeepsServiceCallsInOrder ==
    Parsed =>
        \A i \in DOMAIN decoded :
            ~IsError(decoded[i]) =>
                LET rels == ListedCalls(raw_entities[i])
                    kept == ServiceTargets(rels)
                    calls == decoded[i].calls
                IN  /\ Len(calls) = Cardinality(kept)
                    /\ \A k \in kept :
                           calls[Cardinality({j \in kept : j <= k})] = rels[k].items["id"]
                    /\ \A f \in DOMAIN PropertyOf :
                           decoded[i][f] =
                               IF /\ "properties" \in DOMAIN raw_entities[i].items
                                  /\ PropertyOf[f] \in
                                         DOMAIN raw_entities[i].items["properties"].items
                               THEN raw_entities[i].items["properties"].items[PropertyOf[f]]
                               ELSE ""

\* A record with five relationships, two of them without a type or an id,
\* and two of five properties has been decoded.
C26_Witness ==
    /\ Parsed
    /\ \E i \in DOMAIN decoded :
           /\ ~IsError(decoded[i])
           /\ Len(ListedCalls(raw_entities[i])) = 5
           /\ decoded[i].calls = <<4, 1, 4>>
           /\ decoded[i].process_group = "pg-3"
           /\ decoded[i].web_server_name = ""

\* The records extract_relationships handles without raising, taken alone
WellFormed(rec) == ~ExtractOne(EmptyMap, RState(FALSE, {}, {}), rec).raised

\* C27: a record that fails to decode is skipped and every other record of
\* the response is still processed, in order, without raising, by the batch
\* fetch and by the relationship extraction.
C27_BadRecordSkipped ==
    ppc = "extracted" =>
        /\ fetched_services = SelectSeq(decoded, LAMBDA x : ~IsError(x))
        /\ ~extracted.raised
        /\ \A i \in DOMAIN raw_entities :
               WellFormed(raw_entities[i]) =>
                   ExtractOne(EmptyMap, RState(FALSE, {}, {}), raw_entities[i]).edges
                       \subseteq extracted.edges

\* The batch fetch alone skips the records that fail to decode and keeps
\* the others in order.
BatchFetchSkipsBadRecord ==
    Parsed => fetched_services = SelectSeq(decoded, LAMBDA x : ~IsError(x))

----------------------------------------------------------------------------
(* Properties of repeated and of failing runs *)

\* A call of run() that was not cancelled and whose batch requests were all
\* answered
Undisturbed(left) ==
    /\ left.result.message # CancelledMessage
    /\ \A i \in DOMAIN left.batches : left.batches[i].outcome = "ok"

\* Two lists are the same once sorted: each element occurs as often in both
SameOnceSorted(a, b) ==
    \A e \in Range(a) \cup Range(b) : Count(e, a) = Count(e, b)

\* The second call of run() has just seeded its queue
SecondRunStarts == run_no = 2 /\ pc = "loop" /\ batches = <<>>

\* C28: a second run() on the same exporter, with the same roots and the
\* same backend, starts from cleared visited, frontier, discovered and edge
\* collections, holding the roots only, and when both runs are answered it
\* ends with the same edge list, once sorted, as the first.
C28_SecondRunSameEdges ==
    /\ SecondRunStarts =>
           /\ visited = RootSet
           /\ Range(Ids(queue)) = RootSet
           /\ Len(queue) = Cardinality(RootSet)
           /\ services = <<>>
           /\ edges = <<>>
    /\ (run_no = 2 /\ Done /\ Undisturbed(prior) /\ Undisturbed(Left)) =>
           SameOnceSorted(prior.edges, edges)

\* Both runs were answered and each found the three calls of the cycle.
C28_Witness ==
    /\ run_no = 2
    /\ Done
    /\ Undisturbed(prior)
    /\ Undisturbed(Left)
    /\ Len(prior.edges) = 3
    /\ Len(edges) = 3
    /\ prior.result.success

\* The results run() can return: a record with a success flag and a message
IsExportResult(r) ==
    /\ r # NoResult
    /\ r.success \in BOOLEAN
    /\ r.message # "none"

\* C29: run() ends on every path by returning an ExportResult, and the
\* worker emits finished exactly once, with that result, when run() has
\* returned, and not before.
C29_AlwaysOneResult ==
    /\ pc \in {"start", "created"} \/ run_no >= 1
    /\ Done => IsExportResult(result)
    /\ WorkerEnded => emitted = <<result>>
    /\ ~WorkerEnded => emitted = <<>>

\* The worker has emitted the failure result of a run whose second batch
\* fetch raised something else than an API error.
C29_Witness ==
    /\ WorkerEnded
    /\ emitted = <<result>>
    /\ ~result.success
    /\ result.message = "Unexpected error"
    /\ Len(batches) >= 2
    /\ batches[Len(batches)].outcome = "raised"

----------------------------------------------------------------------------
(* Properties of the single-id lookup *)

\* The positions of the 404 responses among the attempts of the call
NotFoundAt == {i \in DOMAIN http_log : http_log[i] = Response(NotFound)}

\* C30: a single-id lookup whose request is answered 404 gives None to its
\* caller, without raising and without another attempt after the 404; a
\* lookup whose call fails in any other way raises that error.
C30_NotFoundIsAbsent ==
    lookup # NoLookup =>
        /\ NotFoundAt # {} =>
               /\ lookup = None
               /\ NotFoundAt = {Len(http_log)}
               /\ Len(sleeps) = Len(http_log) - 1
        /\ (gpc = "raised" /\ NotFoundAt = {}) => lookup = Raised(gw_error)
        /\ lookup.kind = "raised" => gpc = "raised" /\ gw_error.status # NotFound

\* A lookup of the full scan was rate limited, retried, answered 404, and
\* gave None.
C30_Witness ==
    /\ gateway = "scan"
    /\ lookup = None
    /\ Len(http_log) = 2
    /\ http_log[1] = Response(429)
    /\ http_log[2] = Response(NotFound)

----------------------------------------------------------------------------
(* Properties of the name resolution of the full scan *)

\* The ids the edges of the scan name
EdgeIds(es) == {e[1] : e \in es} \cup {e[3] : e \in es}

\* The ids that extract_relationships left unknown: named by an edge, and
\* not the id of a scanned entity
LeftUnknown == EdgeIds(scan_edges) \ Range(all_entities)

\* The unknown ids whose lookup gave no entity
Unresolved == LeftUnknown \cap (stale \cup failing_ids)

\* An edge without its names
Bare(e) == <<e[1], e[3], e[5]>>

\* The name a row gives to an id, where it names it
NamesIn(rows, id) ==
    {rows[i][2] : i \in {k \in DOMAIN rows : rows[k][1] = id}}
        \cup {rows[i][4] : i \in {k \in DOMAIN rows : rows[k][3] = id}}

\* resolve_unknown_ids has returned
Resolved == spc \in {"finalize", "write", "done"}

\* C31: resolve_unknown_ids leaves the edges and the scanned entities as
\* they are; after it every unknown id whose lookup found the entity has the
\* entity's name, whether or not the lookup of another id raised, every id
\* whose lookup returned nothing or raised is still unknown, and the final
\* edge list holds the same edges and names the unresolved ids "UNKNOWN".
C31_ResolveOnlyNames ==
    /\ [][spc = "resolve" =>
              /\ scan_edges' = scan_edges
              /\ all_entities' = all_entities
              /\ final_edges' = final_edges
              /\ \A id \in DOMAIN id_to_name :
                     id \in DOMAIN id_to_name' /\ id_to_name'[id] = id_to_name[id]]_vars
    /\ [](Resolved =>
              \A id \in LeftUnknown :
                  IF id \in Unresolved
                  THEN id \notin DOMAIN id_to_name /\ id \in unknown_ids
                  ELSE /\ id \in DOMAIN id_to_name
                       /\ id_to_name[id] = ServiceEntity(graph, id).display_name
                       /\ id \notin unknown_ids)
    /\ [](spc \in {"write", "done"} =>
              /\ {Bare(final_edges[i]) : i \in DOMAIN final_edges}
                     = {Bare(e) : e \in scan_edges}
              /\ Len(final_edges) = Cardinality(scan_edges)
              /\ \A id \in Unresolved : NamesIn(final_edges, id) = {"UNKNOWN"})

\* One lookup raised, one returned nothing or found the entity, and the
\* final edge list names an id "UNKNOWN" and another by its name.
C31_Witness ==
    /\ spc = "done"
    /\ failing_ids # {}
    /\ LeftUnknown \ failing_ids # {}
    /\ \E id \in LeftUnknown \ Unresolved : "UNKNOWN" \notin NamesIn(final_edges, id)
    /\ \E id \in failing_ids : NamesIn(final_edges, id) = {"UNKNOWN"}

----------------------------------------------------------------------------
(* Properties of cancellation inside the gateway *)

\* C32: in the bfs gateway the flag is polled before every backoff sleep:
\* a request that ends in a retryable failure with the flag set does not
\* lead to the backoff sleep, and once the flag is set the call performs no
\* sleep any more.
C32_CancelSkipsSleep ==
    [][(gateway = "bfs" /\ cancelled) =>
           /\ gpc = "http" => gpc' # "sleep"
           /\ sleeps' = sleeps
      ]_vars

----------------------------------------------------------------------------
(* Properties of the retries over failures of mixed kinds *)

\* The failures a gateway retries: 429, 5xx, connection failures and
\* timeouts, and in the scan gateway every other request exception
Retryable(o) ==
    IF o.exc = "none" THEN o.status = 429 \/ o.status >= 500
    ELSE gateway = "scan" \/ o.exc \in {"ConnectionError", "Timeout"}

\* The attempts of the call that ended in a retryable failure
RetryableAt == {i \in DOMAIN http_log : Retryable(http_log[i])}

\* The kinds of retryable failure met by the call
KindsMet ==
    {IF http_log[i].exc = "none" THEN "status" ELSE http_log[i].exc : i \in RetryableAt}

\* C33: connection failures, timeouts, 429 and 5xx share one counter and
\* one backoff: whatever their kinds, the retryable failures of a call are
\* counted together, the call makes at most max_retries + 1 attempts, it
\* raises at its (max_retries + 1)-th retryable failure and not before, it
\* sleeps once after every other retryable failure, and each sleep lasts
\* twice the one before, up to max_backoff, the first lasting
\* initial_backoff.
C33_OneCounterOneBackoff ==
    LET n == Cardinality(RetryableAt) IN
    /\ retries = n
    /\ Len(http_log) <= max_retries + 1
    /\ n = max_retries + 1 =>
           /\ gpc = "raised"
           /\ Len(http_log) \in RetryableAt
           /\ gw_error.reason \notin {"cancelled", "client error", "ssl"}
    /\ (gpc = "raised" /\ http_log # <<>> /\ Len(http_log) \in RetryableAt
           /\ gw_error.reason # "cancelled") => n = max_retries + 1
    /\ Len(sleeps) = IF gpc = "sleep" \/ n = max_retries + 1 THEN n - 1 ELSE n
    /\ sleeps # <<>> => sleeps[1] = initial_backoff
    /\ \A k \in 1..(Len(sleeps) - 1) : sleeps[k + 1] = Min(2 * sleeps[k], max_backoff)

\* A call met a rate limit, a server error and a timeout or connection
\* failure, slept after each, and raised at the last of its attempts.
C33_Witness ==
    /\ max_retries = 2
    /\ gpc = "raised"
    /\ Len(http_log) = 3
    /\ Cardinality(RetryableAt) = 3
    /\ Cardinality(KindsMet) >= 2
    /\ \E i \in RetryableAt : http_log[i].exc \in {"ConnectionError", "Timeout"}
    /\ \E i \in RetryableAt : http_log[i] = Response(429)
    /\ Len(sleeps) = 2
    /\ sleeps[2] > sleeps[1]

----------------------------------------------------------------------------
(* Properties of the progress snapshots *)

\* The snapshot emitted when the batch being fetched was dequeued
BatchSnapshot == snapshots[Len(snapshots)]

\* What the snapshot of the batch being fetched reports besides the edges
SnapshotOfBatch ==
    /\ BatchSnapshot.current_depth = MaxOf(Depths(batch))
    /\ BatchSnapshot.queue_size = Len(queue)
    /\ BatchSnapshot.services_discovered = Len(services)

\* C34: the snapshot emitted for a batch reports the maximum depth of the
\* batch, the size of the frontier, the number of nodes recorded in
\* discovered so far and the number of call relationships found so far.
C34_SnapshotTotals ==
    pc = "fetch" =>
        /\ SnapshotOfBatch
        /\ BatchSnapshot.edges_found = CallCount(graph, services)

\* The depth, the frontier size and the discovered count of the snapshot
\* are those of the run at the time.
SnapshotCountsServices == pc = "fetch" => SnapshotOfBatch

----------------------------------------------------------------------------
(* Properties of a run after its cancellation *)

\* C35: once the flag is set in a run, no batch is dequeued any more, an
\* HTTP attempt is made only by the request that had passed its check (the
\* call is at the request already), and no request is started: the call
\* never comes to a request again, so no retry and no later batch request
\* follows.
C35_CancelEndsRequests ==
    [][(cancelled /\ cancelled' /\ pc \in {"loop", "fetch", "post"}) =>
           /\ ~(pc = "loop" /\ pc' = "fetch")
           /\ batch' = batch
           /\ http_log' # http_log => (gpc = "http" /\ gpc' # "http")
           /\ gpc' = "http" => gpc = "http"
      ]_vars

\* The flag was set while a request was in flight; the request failed, was
\* followed by its sleep, and the next check raised the cancellation error.
C35_Witness ==
    /\ cancelled
    /\ pc = "fetch"
    /\ RaisedCancelled
    /\ Len(http_log) = 1
    /\ Len(sleeps) = 1

----------------------------------------------------------------------------
(* Properties of a run whose every batch fails *)

\* Every batch fetch of the run raised an API error other than cancellation
AllBatchesFailed ==
    /\ batches # <<>>
    /\ \A i \in DOMAIN batches : batches[i].outcome = "failed"

\* C36: a run whose batch fetches all failed with an API error, and that
\* was not cancelled, returns before the export with a success result:
\* success is true, no service and no edge is counted, and the result is
\* the one of the return that precedes the writing of the output files.
C36_AllFailedIsEmptySuccess ==
    (Done /\ AllBatchesFailed /\ result.message # CancelledMessage) =>
        /\ result = ExportResult(TRUE, "No services found. Check if root IDs are valid.",
                                 0, 0, 0)
        /\ services = <<>>
        /\ edges = <<>>

\* Two batches were requested and both failed with a client error; the run
\* has returned a success.
C36_Witness ==
    /\ Done
    /\ Len(batches) = 2
    /\ AllBatchesFailed
    /\ result.success
    /\ result.total_services = 0

----------------------------------------------------------------------------
(* Properties of discovered when an answer carries an entity not asked for *)

\* The ids named in the batch requests made so far, the one in flight
\* included
Dequeued == Range(Requested)

\* C37: whatever the answers carry, every key of discovered is in visited
\* and was dequeued in an earlier batch or in the current one.
C37_DiscoveredWasDequeued ==
    pc \in {"loop", "fetch", "post", "done", "ended"} =>
        /\ Range(services) \subseteq visited
        /\ Range(services) \subseteq Dequeued

\* With answers that carry the requested entities only, every key of
\* discovered is in visited and was dequeued.
RequestedOnlyWasDequeued ==
    (\A i \in DOMAIN batches : Range(batches[i].body) \subseteq Range(batches[i].ids)) =>
        C37_DiscoveredWasDequeued


-----------------------------------------------------------------------------
(* Properties of a cancellation requested before run() has reset the      *)
(* exporter                                                                *)

\* What run() starts from: its roots alone decide it
RunStart == SeedRoots(FilterRoots(root_ids), TState({}, <<>>, <<>>, <<>>))

\* C38: ExportWorker.cancel has no effect on the run when it is called before
\* the worker thread has made the exporter, or after that and before run()
\* has reset the exporter: a call made before the exporter exists changes
\* nothing, and run() starts with the flag unset and from the roots alone,
\* whatever was requested before.
C38_EarlyCancelHasNoEffect ==
    /\ [][(pc = "start" /\ pc' = "start") =>
              /\ cancelled' = cancelled
              /\ UNCHANGED <<bfs_vars, gw_vars, session, snapshots, emitted>>]_vars
    /\ [][(pc = "created" /\ pc' # "created") =>
              /\ ~cancelled'
              /\ pc' = IF FilterRoots(root_ids) = <<>> THEN "done" ELSE "loop"
              /\ pc' = "loop" =>
                     /\ visited' = RunStart.visited
                     /\ queue' = RunStart.queue
                     /\ services' = <<>>
                     /\ edges' = <<>>
                     /\ batches' = <<>>
                     /\ snapshots' = <<ExportProgress(0, 0, 0, 0)>>]_vars
    /\ [](pc = "start" => ~cancelled)

\* Both calls were made, and the run went to its end as a run nobody has
\* cancelled: it succeeded with the services of the graph.
C38_Witness ==
    /\ early_cancels = {"start", "created"}
    /\ pc = "done"
    /\ ~cancelled
    /\ result.success
    /\ Len(services) > 1


-----------------------------------------------------------------------------
(* Properties of the roots run() is given *)

\* The ids named by the roots given, blanks around them left out
NonBlank == {root_ids[i].text : i \in DOMAIN root_ids} \ {0}

\* Where the list given names id first
FirstGiven(id) ==
    CHOOSE i \in DOMAIN root_ids :
        /\ root_ids[i].text = id
        /\ \A j \in 1..(i - 1) : root_ids[j].text # id

\* How often id was appended to the queue
TimesEnqueued(id) == Cardinality({i \in DOMAIN enq_log : enq_log[i][1] = id})

\* C39: run() called with no root, or with empty and blank ids only, returns
\* a failure result and makes no request; with an id that is not blank among
\* them the roots are trimmed and deduplicated, and each is enqueued once, at
\* depth 0, and marked visited.
C39_RootsValidatedAndSeeded ==
    /\ NonBlank = {} =>
           /\ http_log = <<>>
           /\ batches = <<>>
           /\ queue = <<>>
           /\ visited = {}
           /\ pc \notin {"loop", "fetch", "post"}
           /\ Done => ~result.success
    /\ (NonBlank # {} /\ pc \notin {"start", "created"}) =>
           LET n == Cardinality(NonBlank)
           IN  /\ Len(enq_log) >= n
               /\ {enq_log[i][1] : i \in 1..n} = NonBlank
               /\ \A i \in 1..n : enq_log[i][2] = 0
               /\ \A i, j \in 1..n :
                      i < j => FirstGiven(enq_log[i][1]) < FirstGiven(enq_log[j][1])
               /\ \A id \in NonBlank : TimesEnqueued(id) = 1
               /\ NonBlank \subseteq visited

\* The same id was given twice, once with blanks around it: run() has
\* enqueued it once and has requested it.
C39_Witness ==
    /\ root_ids = <<Padded(1), Plain(1)>>
    /\ enq_log # <<>>
    /\ enq_log[1] = <<1, 0>>
    /\ TimesEnqueued(1) = 1
    /\ Len(batches) > 0
    /\ batches[1].ids = <<1>>
    /\ Done

=============================================================================
